---- MODULE Spec2Model ----
(***************************************************************************)
(* Extended copy of OCI content graphs (oras-go): the upward predecessor   *)
(* walk findRoots, the per-root downward CopyGraph, ExtendedCopy with its  *)
(* nil checks, Resolve and Tag, and the Successors resolver.               *)
(***************************************************************************)
EXTENDS Integers, Sequences, FiniteSets, TLC

VARIABLES
    srcNil,      \* the src argument of ExtendedCopy is nil
    dstNil,      \* the dst argument of ExtendedCopy is nil
    src,         \* source store: [content: digest -> manifest/blob, tags: ref -> descriptor]
    srcRef,      \* source reference argument
    dstRef,      \* destination reference argument
    opts,        \* ExtendedCopyGraphOptions: [Depth, FindPredecessors]
    dst,         \* keys of the content present in the destination store
    dstTags,     \* destination tags: ref -> descriptor
    pc,          \* position of the ExtendedCopy call
    node,        \* <<d>> once srcRef is resolved to d, <<>> before
    err,         \* error returned to the caller, NoErr if none
    result,      \* <<d>> when ExtendedCopy returned the descriptor d
    visited,     \* findRoots: set of visited keys
    roots,       \* findRoots: map key -> descriptor
    stack,       \* findRoots: copyutil.Stack of NodeInfo, top is the last element
    pending,     \* ExtendedCopyGraph: keys of roots the range loop has not yielded yet
    copyStack,   \* CopyGraph: frames of the downward traversal, top is the last element
    predOf,      \* answers the custom FindPredecessors has given so far: key -> list
    edgesLeft,   \* custom FindPredecessors: predecessors it may still list
    io,          \* history: store operations attempted by the current run, in order
    discovered,  \* history: keys in the order addRoot first recorded them
    copied,      \* history: keys in the order CopyGraph was called on them
    queried,     \* history: keys FindPredecessors was called on, in order
    popped,      \* history: <<key, depth>> of every stack entry popped by findRoots
    run,         \* number of the current ExtendedCopy call
    prev,        \* destination state when the current run started, and the
                 \* roots of the run before
    filters,     \* the filters registered on opts, in the order of registration
    referrerFinder, \* src implements registry.ReferrerFinder
    answer,      \* what the source or the custom function answered the last call
    found,       \* <<r>> once opts.FindPredecessors returned r = [err, nodes, streams]
    children,    \* <<r>> once Successors returned r = [err, nodes]
    packArgs,    \* arguments of the Pack or PackArtifact call
    packPc,      \* position of the Pack or PackArtifact call
    packDst,     \* the store packed into: digest -> bytes
    pushes,      \* history: what the current packer call pushed, in order
    packed,      \* <<r>> once the packer returned r = [err, desc]
    packRuns     \* history: pushes and result of the earlier packer calls

vars == <<srcNil, dstNil, src, srcRef, dstRef, opts, dst, dstTags, pc, node, err,
          result, visited, roots, stack, pending, copyStack, predOf, edgesLeft,
          io, queried, discovered, copied, popped, run, prev,
          filters, referrerFinder, answer, found, children,
          packArgs, packPc, packDst, pushes, packed, packRuns>>

\* the variables of ExtendedCopy and its walk
copyVars == <<srcNil, dstNil, src, srcRef, dstRef, dst, dstTags, pc, node, err,
              result, visited, roots, stack, pending, copyStack, predOf,
              edgesLeft, queried, discovered, copied, popped, run, prev>>

\* the variables of the predecessor filters
filterVars == <<filters, referrerFinder, answer, found>>

\* the variables of the packers
packVars == <<packArgs, packPc, packDst, pushes, packed, packRuns>>

----------------------------------------------------------------------------
(* Bounds of the model *)

MaxDepth == 2
MaxEdges == 4
MaxRuns == 2
MaxFairEdges == 3

----------------------------------------------------------------------------
(* Media types *)

DockerMediaTypeManifest == "application/vnd.docker.distribution.manifest.v2+json"
DockerMediaTypeManifestList == "application/vnd.docker.distribution.manifest.list.v2+json"
MediaTypeImageManifest == "application/vnd.oci.image.manifest.v1+json"
MediaTypeImageIndex == "application/vnd.oci.image.index.v1+json"
LegacyMediaTypeArtifactManifest == "application/vnd.cncf.oras.artifact.manifest.v1+json"
MediaTypeArtifactManifest == "application/vnd.oci.artifact.manifest.v1+json"
MediaTypeLayer == "application/vnd.oci.image.layer.v1.tar"
MediaTypeConfig == "application/vnd.unknown.config.v1+json"

----------------------------------------------------------------------------
(* Errors *)

NoErr == "nil"
ErrNilSource == "nil source graph target"
ErrNilDestination == "nil destination target"
ErrNotFound == "not found"
ErrCanceled == "context canceled"
ErrDecode == "invalid character"

----------------------------------------------------------------------------
(* Descriptors.  An optional value (a nil-able map or pointer) is <<>> when  *)
(* nil and <<v>> when set.                                                  *)

Nil == <<>>

Range(s) == {s[i] : i \in DOMAIN s}

\* ocispec.Descriptor
Descriptor(mt, dg, sz, ann) ==
    [mediaType |-> mt, digest |-> dg, size |-> sz, annotations |-> ann,
     artifactType |-> ""]

\* artifactspec.Descriptor, the legacy form
ArtifactDescriptor(mt, dg, sz, ann) ==
    [MediaType |-> mt, ArtifactType |-> "", Digest |-> dg, Size |-> sz,
     Annotations |-> ann]

\* descriptor.FromOCI: the key used by the visited set and the roots map
FromOCI(desc) ==
    [MediaType |-> desc.mediaType, Digest |-> desc.digest, Size |-> desc.size]

\* descriptor.ArtifactToOCI: the legacy form converted to the unified form
ArtifactToOCI(desc) ==
    [mediaType |-> desc.MediaType, digest |-> desc.Digest, size |-> desc.Size,
     annotations |-> desc.Annotations, artifactType |-> desc.ArtifactType]

----------------------------------------------------------------------------
(* Stored content *)

Blob(sz) == [mediaType |-> MediaTypeLayer, size |-> sz]

Config(sz) == [mediaType |-> MediaTypeConfig, size |-> sz]

\* ocispec.Manifest (docker manifests decode into the same struct)
ImageManifest(mt, sz, config, layers) ==
    [mediaType |-> mt, size |-> sz, config |-> config, layers |-> layers]

\* ocispec.Index
Index(mt, sz, manifests) ==
    [mediaType |-> mt, size |-> sz, manifests |-> manifests]

\* artifactspec.Manifest: subject and blobs are legacy descriptors
LegacyArtifact(sz, subject, blobs) ==
    [mediaType |-> LegacyMediaTypeArtifactManifest, size |-> sz,
     subject |-> subject, blobs |-> blobs]

\* ocispec.Artifact
Artifact(sz, subject, blobs) ==
    [mediaType |-> MediaTypeArtifactManifest, size |-> sz,
     subject |-> subject, blobs |-> blobs]

\* The descriptor of the content stored under a digest, as a store returns it
StoredDescriptor(content, dg) ==
    Descriptor(content[dg].mediaType, dg, content[dg].size, Nil)

\* Fetch of the memory store: the content is looked up by the descriptor's key
Fetch(store, desc) ==
    IF /\ desc.digest \in DOMAIN store.content
       /\ FromOCI(StoredDescriptor(store.content, desc.digest)) = FromOCI(desc)
    THEN [err |-> NoErr, content |-> <<store.content[desc.digest]>>]
    ELSE [err |-> ErrNotFound, content |-> <<>>]

----------------------------------------------------------------------------
(* Successors: the children of a node, in manifest field order *)

\* Mutant: the subject of an artifact manifest is left out of its successors
SuccessorsOfContentNoSubject(mt, manifest) ==
    CASE mt \in {DockerMediaTypeManifest, MediaTypeImageManifest} ->
           <<manifest.config>> \o manifest.layers
      [] mt \in {DockerMediaTypeManifestList, MediaTypeImageIndex} ->
           manifest.manifests
      [] mt = LegacyMediaTypeArtifactManifest ->
           [i \in 1..Len(manifest.blobs) |-> ArtifactToOCI(manifest.blobs[i])]
      [] mt = MediaTypeArtifactManifest ->
           manifest.blobs
      [] OTHER -> <<>>

\* Mutant: the config of an image manifest comes after its layers
SuccessorsOfContentLayersFirst(mt, manifest) ==
    CASE mt \in {DockerMediaTypeManifest, MediaTypeImageManifest} ->
           manifest.layers \o <<manifest.config>>
      [] mt \in {DockerMediaTypeManifestList, MediaTypeImageIndex} ->
           manifest.manifests
      [] mt = LegacyMediaTypeArtifactManifest ->
           [i \in 1..Len(manifest.subject) |-> ArtifactToOCI(manifest.subject[i])]
           \o [i \in 1..Len(manifest.blobs) |-> ArtifactToOCI(manifest.blobs[i])]
      [] mt = MediaTypeArtifactManifest ->
           manifest.subject \o manifest.blobs
      [] OTHER -> <<>>

SuccessorsOfContent(mt, manifest) ==
    CASE mt \in {DockerMediaTypeManifest, MediaTypeImageManifest} ->
           <<manifest.config>> \o manifest.layers
      [] mt \in {DockerMediaTypeManifestList, MediaTypeImageIndex} ->
           manifest.manifests
      [] mt = LegacyMediaTypeArtifactManifest ->
           [i \in 1..Len(manifest.subject) |-> ArtifactToOCI(manifest.subject[i])]
           \o [i \in 1..Len(manifest.blobs) |-> ArtifactToOCI(manifest.blobs[i])]
      [] mt = MediaTypeArtifactManifest ->
           manifest.subject \o manifest.blobs
      [] OTHER -> <<>>

IsManifestType(mt) ==
    mt \in {DockerMediaTypeManifest, MediaTypeImageManifest,
            DockerMediaTypeManifestList, MediaTypeImageIndex,
            LegacyMediaTypeArtifactManifest, MediaTypeArtifactManifest}

Successors(fetcher, n) ==
    IF IsManifestType(n.mediaType)
    THEN LET r == Fetch(fetcher, n) IN
         IF r.err # NoErr
         THEN [err |-> r.err, nodes |-> <<>>]
         ELSE [err |-> NoErr,
               nodes |-> SuccessorsOfContent(n.mediaType, r.content[1])]
    ELSE [err |-> NoErr, nodes |-> <<>>]

----------------------------------------------------------------------------
(* Store operations consumed from the collaborating stores *)

\* All enumerations of a finite set as a sequence without repetition
Orderings(S) ==
    {s \in [1..Cardinality(S) -> S] : \A i, j \in 1..Cardinality(S) : s[i] = s[j] => i = j}

\* Resolver: the descriptor a reference is tagged with
Resolve(store, ref) ==
    IF ref \in DOMAIN store.tags
    THEN [err |-> NoErr, desc |-> <<store.tags[ref]>>]
    ELSE [err |-> ErrNotFound, desc |-> <<>>]

\* PredecessorFinder: the stored manifests that list desc among their children
PredecessorSet(store, desc) ==
    {p \in {StoredDescriptor(store.content, dg) : dg \in DOMAIN store.content} :
        \E s \in Range(Successors(store, p).nodes) : FromOCI(s) = FromOCI(desc)}

\* The lists src.Predecessors may return: the predecessors in any order
Predecessors(store, desc) == Orderings(PredecessorSet(store, desc))

\* Exists of the destination store
Exists(store, desc) == FromOCI(desc) \in store

----------------------------------------------------------------------------
(* copyutil.Stack *)

NodeInfo(n, d) == [Node |-> n, Depth |-> d]

Push(stk, i) == Append(stk, i)

Top(stk) == stk[Len(stk)]

Pop(stk) == SubSeq(stk, 1, Len(stk) - 1)

----------------------------------------------------------------------------
(* The source stores of the model *)

TagOf(dg) == "tag-" \o dg

TagAll(content) ==
    LET refs == {TagOf(dg) : dg \in DOMAIN content} IN
    [r \in refs |-> StoredDescriptor(content, CHOOSE dg \in DOMAIN content : TagOf(dg) = r)]

D(content, dg) == StoredDescriptor(content, dg)

AD(content, dg) ==
    ArtifactDescriptor(content[dg].mediaType, dg, content[dg].size, Nil)

\* artifact a --subject--> artifact b --subject--> artifact c --blob--> l
ChainContent ==
    LET c0 == ("l" :> Blob(1))
        c1 == c0 @@ ("c" :> Artifact(3, Nil, <<D(c0, "l")>>))
        c2 == c1 @@ ("b" :> Artifact(4, <<D(c1, "c")>>, <<>>))
    IN  c2 @@ ("a" :> LegacyArtifact(5, <<AD(c2, "b")>>, <<>>))

\* image m (config k, layer l) listed by index i and referred to by legacy artifact r
ImageContent ==
    LET c0 == ("k" :> Config(2)) @@ ("l" :> Blob(1))
        c1 == c0 @@ ("m" :> ImageManifest(MediaTypeImageManifest, 6,
                                          D(c0, "k"), <<D(c0, "l")>>))
        c2 == c1 @@ ("i" :> Index(MediaTypeImageIndex, 7, <<D(c1, "m")>>))
    IN  c2 @@ ("r" :> LegacyArtifact(8, <<AD(c1, "m")>>, <<AD(c0, "l")>>))

\* blob s is listed by artifacts b and x, x refers to b, and t refers to x:
\* x is a predecessor of s directly and through b
DiamondContent ==
    LET c0 == ("s" :> Blob(1))
        c1 == c0 @@ ("b" :> Artifact(3, Nil, <<D(c0, "s")>>))
        c2 == c1 @@ ("x" :> Artifact(4, <<D(c1, "b")>>, <<D(c0, "s")>>))
    IN  c2 @@ ("t" :> Artifact(5, <<D(c2, "x")>>, <<>>))

\* index i lists a manifest m that the store does not hold
SparseContent ==
    "i" :> Index(DockerMediaTypeManifestList, 7,
                 <<Descriptor(DockerMediaTypeManifest, "m", 6, Nil)>>)

Stores ==
    {[content |-> c, tags |-> TagAll(c)] :
        c \in {ChainContent, ImageContent, DiamondContent, SparseContent}}

StoredKeys(store) ==
    {FromOCI(StoredDescriptor(store.content, dg)) : dg \in DOMAIN store.content}

\* The descriptors a custom FindPredecessors of the model may list: three
\* keys, each with nil and with non-nil annotations
WalkDescs ==
    {Descriptor(LegacyMediaTypeArtifactManifest, dg, 1, ann) :
        dg \in {"x", "y", "z"}, ann \in {Nil, <<("k" :> "v")>>}}

WalkStart == Descriptor(LegacyMediaTypeArtifactManifest, "x", 1, Nil)

SeqsUpTo(S, n) == UNION {[1..m -> S] : m \in 0..n}

----------------------------------------------------------------------------
(* Initial states *)

EmptyMap == <<>>

\* no answer of the source yet
NoAnswer ==
    [err |-> NoErr, predecessors |-> <<>>, pages |-> <<>>, readAhead |-> FALSE]

\* the zero value of ExtendedCopyGraphOptions: no filter is registered
NoFilters ==
    /\ filters = <<>>
    /\ referrerFinder = FALSE
    /\ answer = NoAnswer
    /\ found = <<>>

\* no call of Successors alone and no packer call
NoPack ==
    /\ children = <<>>
    /\ packArgs = <<>>
    /\ packPc = "idle"
    /\ packDst = EmptyMap
    /\ pushes = <<>>
    /\ packed = <<>>
    /\ packRuns = <<>>

InitCall ==
    /\ pc = "start"
    /\ node = <<>>
    /\ err = NoErr
    /\ result = <<>>
    /\ visited = {}
    /\ roots = EmptyMap
    /\ stack = <<>>
    /\ pending = {}
    /\ copyStack = <<>>
    /\ io = <<>>
    /\ queried = <<>>
    /\ discovered = <<>>
    /\ copied = <<>>
    /\ popped = {}

\* ExtendedCopy over a source store with the default options
Init ==
    /\ srcNil \in BOOLEAN
    /\ dstNil \in BOOLEAN
    /\ src \in Stores
    /\ srcRef \in DOMAIN src.tags \cup {"missing"}
    /\ dstRef \in {"", "copy"}
    /\ opts \in [Depth : -1..MaxDepth, FindPredecessors : {"nil"}]
    /\ dst \in SUBSET StoredKeys(src)
    /\ dstTags = EmptyMap
    /\ predOf = EmptyMap
    /\ edgesLeft = 0
    /\ run = 1
    /\ prev = [dst |-> dst, dstTags |-> dstTags, roots |-> EmptyMap]
    /\ NoFilters
    /\ NoPack
    /\ InitCall

----------------------------------------------------------------------------
(* ExtendedCopy: nil checks and Resolve *)

\* Mutant: the error is recorded but the call goes on
RecordedOnly(e) ==
    /\ err' = e
    /\ pc' = pc

Returned(e) ==
    /\ err' = e
    /\ pc' = "done"

\* Mutant: dst is checked for nil only after srcRef is resolved
ExtendedCopyLateNilCheck ==
    /\ pc = "start"
    /\ \/ /\ srcNil
          /\ Returned(ErrNilSource)
          /\ UNCHANGED <<node, stack, io>>
       \/ /\ ~srcNil
          /\ io' = Append(io, "Resolve")
          /\ \/ /\ Returned(ErrCanceled)
                /\ UNCHANGED <<node, stack>>
             \/ /\ Resolve(src, srcRef).err # NoErr
                /\ Returned(Resolve(src, srcRef).err)
                /\ UNCHANGED <<node, stack>>
             \/ /\ Resolve(src, srcRef).err = NoErr
                /\ dstNil
                /\ Returned(ErrNilDestination)
                /\ UNCHANGED <<node, stack>>
             \/ /\ Resolve(src, srcRef).err = NoErr
                /\ ~dstNil
                /\ node' = Resolve(src, srcRef).desc
                /\ stack' = Push(<<>>, NodeInfo(node'[1], 0))
                /\ pc' = "findRoots"
                /\ err' = err
    /\ UNCHANGED <<filterVars, packVars, children, srcNil, dstNil, src, srcRef, dstRef, opts, dst, dstTags, result,
                   visited, roots, pending, copyStack, predOf, edgesLeft, queried,
                   discovered, copied, popped, run, prev>>

ExtendedCopy ==
    /\ pc = "start"
    /\ \/ /\ srcNil
          /\ Returned(ErrNilSource)
          /\ UNCHANGED <<node, stack, io>>
       \/ /\ ~srcNil
          /\ dstNil
          /\ Returned(ErrNilDestination)
          /\ UNCHANGED <<node, stack, io>>
       \/ /\ ~srcNil
          /\ ~dstNil
          /\ io' = Append(io, "Resolve")
          /\ \/ /\ Returned(ErrCanceled)
                /\ UNCHANGED <<node, stack>>
             \/ /\ Resolve(src, srcRef).err # NoErr
                /\ Returned(Resolve(src, srcRef).err)
                /\ UNCHANGED <<node, stack>>
             \/ /\ Resolve(src, srcRef).err = NoErr
                /\ node' = Resolve(src, srcRef).desc
                \* ExtendedCopyGraph calls findRoots, which pushes the initial node
                /\ stack' = Push(<<>>, NodeInfo(node'[1], 0))
                /\ pc' = "findRoots"
                /\ err' = err
    /\ UNCHANGED <<filterVars, packVars, children, srcNil, dstNil, src, srcRef, dstRef, opts, dst, dstTags, result,
                   visited, roots, pending, copyStack, predOf, edgesLeft, queried,
                   discovered, copied, popped, run, prev>>

----------------------------------------------------------------------------
(* findRoots *)

AddRoot(r, key, val) ==
    IF key \in DOMAIN r THEN r ELSE r @@ (key :> val)

\* Mutant: the depth test is off by one
DepthReachedOffByOne(o, current) ==
    o.Depth > 0 /\ current.Depth = o.Depth + 1

\* the target depth is reached
DepthReached(o, current) ==
    o.Depth > 0 /\ current.Depth = o.Depth

\* Mutant: only the first predecessor that is not visited is pushed
PushFirstPredecessor(stk, vis, predecessors, depth) ==
    stk \o [i \in 1..(IF SelectSeq(predecessors, LAMBDA p : FromOCI(p) \notin vis) = <<>>
                      THEN 0 ELSE 1) |->
              NodeInfo(SelectSeq(predecessors, LAMBDA p : FromOCI(p) \notin vis)[i],
                       depth + 1)]

\* push the predecessors that are not visited, with increased depth
PushPredecessors(stk, vis, predecessors, depth) ==
    stk \o [i \in 1..Len(SelectSeq(predecessors, LAMBDA p : FromOCI(p) \notin vis)) |->
              NodeInfo(SelectSeq(predecessors, LAMBDA p : FromOCI(p) \notin vis)[i],
                       depth + 1)]

\* history of the roots map: the keys in the order they were first recorded
Discover(key) ==
    discovered' = IF key \in DOMAIN roots' /\ key \notin DOMAIN roots
                  THEN Append(discovered, key)
                  ELSE discovered

Popping ==
    /\ pc = "findRoots"
    /\ stack # <<>>
    /\ popped' = popped \cup {<<FromOCI(Top(stack).Node), Top(stack).Depth>>}

\* Mutant: a visited node is left on the stack
FindRootsSkipVisitedNoPop ==
    /\ Popping
    /\ FromOCI(Top(stack).Node) \in visited
    /\ stack' = stack
    /\ UNCHANGED <<filterVars, packVars, children, srcNil, dstNil, src, srcRef, dstRef, opts, dst, dstTags, pc, node,
                   err, result, visited, roots, pending, copyStack, predOf, edgesLeft,
                   io, queried, discovered, copied, run, prev>>

\* the popped node has been visited: skip it
FindRootsSkipVisited ==
    /\ Popping
    /\ FromOCI(Top(stack).Node) \in visited
    /\ stack' = Pop(stack)
    /\ UNCHANGED <<filterVars, packVars, children, srcNil, dstNil, src, srcRef, dstRef, opts, dst, dstTags, pc, node,
                   err, result, visited, roots, pending, copyStack, predOf, edgesLeft,
                   io, queried, discovered, copied, run, prev>>

\* Mutant: a node popped at the target depth is dropped
FindRootsDepthReachedNoRoot ==
    /\ Popping
    /\ FromOCI(Top(stack).Node) \notin visited
    /\ DepthReached(opts, Top(stack))
    /\ visited' = visited \cup {FromOCI(Top(stack).Node)}
    /\ roots' = roots
    /\ Discover(FromOCI(Top(stack).Node))
    /\ stack' = Pop(stack)
    /\ UNCHANGED <<filterVars, packVars, children, srcNil, dstNil, src, srcRef, dstRef, opts, dst, dstTags, pc, node,
                   err, result, pending, copyStack, predOf, edgesLeft, io, queried,
                   copied, run, prev>>

\* the popped node is at the target depth: it is a root
FindRootsDepthReached ==
    /\ Popping
    /\ FromOCI(Top(stack).Node) \notin visited
    /\ DepthReached(opts, Top(stack))
    /\ visited' = visited \cup {FromOCI(Top(stack).Node)}
    /\ roots' = AddRoot(roots, FromOCI(Top(stack).Node), Top(stack).Node)
    /\ Discover(FromOCI(Top(stack).Node))
    /\ stack' = Pop(stack)
    /\ UNCHANGED <<filterVars, packVars, children, srcNil, dstNil, src, srcRef, dstRef, opts, dst, dstTags, pc, node,
                   err, result, pending, copyStack, predOf, edgesLeft, io, queried,
                   copied, run, prev>>

\* Mutant: the popped node is queried whether or not it has been visited
QueryingNoVisitedCheck ==
    /\ Popping
    /\ ~DepthReached(opts, Top(stack))
    /\ visited' = visited \cup {FromOCI(Top(stack).Node)}
    /\ io' = Append(io, "Predecessors")
    /\ queried' = Append(queried, FromOCI(Top(stack).Node))

\* the popped node is to be queried for its predecessors
Querying ==
    /\ Popping
    /\ FromOCI(Top(stack).Node) \notin visited
    /\ ~DepthReached(opts, Top(stack))
    /\ visited' = visited \cup {FromOCI(Top(stack).Node)}
    /\ io' = Append(io, "Predecessors")
    /\ queried' = Append(queried, FromOCI(Top(stack).Node))

\* FindPredecessors returned an error
QueryFailed(e) ==
    /\ Returned(e)
    /\ stack' = Pop(stack)
    /\ UNCHANGED <<roots, discovered>>

\* Mutant: a node without predecessors is not recorded as a root
QueryAnsweredNoRoot(predecessors) ==
    /\ roots' = roots
    /\ stack' = PushPredecessors(Pop(stack), visited', predecessors,
                                 Top(stack).Depth)
    /\ Discover(FromOCI(Top(stack).Node))
    /\ UNCHANGED <<pc, err>>

\* FindPredecessors returned the list predecessors
QueryAnswered(predecessors) ==
    /\ IF Len(predecessors) = 0
       THEN /\ roots' = AddRoot(roots, FromOCI(Top(stack).Node), Top(stack).Node)
            /\ stack' = Pop(stack)
       ELSE /\ roots' = roots
            /\ stack' = PushPredecessors(Pop(stack), visited', predecessors,
                                         Top(stack).Depth)
    /\ Discover(FromOCI(Top(stack).Node))
    /\ UNCHANGED <<pc, err>>

\* opts.FindPredecessors is nil: src.Predecessors is used
FindRootsQuery ==
    /\ opts.FindPredecessors = "nil"
    /\ Querying
    /\ \/ QueryFailed(ErrCanceled)
       \/ \E predecessors \in Predecessors(src, Top(stack).Node) :
              QueryAnswered(predecessors)
    /\ UNCHANGED <<filterVars, packVars, children, srcNil, dstNil, src, srcRef, dstRef, opts, dst, dstTags, node,
                   result, pending, copyStack, predOf, edgesLeft, copied, run, prev>>

\* The answer of the custom FindPredecessors for a key: the one it has given
\* before, or else any list of descriptors within the model's bound
CustomPredecessors(key) ==
    IF key \in DOMAIN predOf
    THEN {predOf[key]}
    ELSE SeqsUpTo(WalkDescs, edgesLeft)

\* opts.FindPredecessors is a caller-supplied function
FindRootsQueryCustom ==
    /\ opts.FindPredecessors = "custom"
    /\ Querying
    /\ \/ /\ QueryFailed(ErrCanceled)
          /\ UNCHANGED <<predOf, edgesLeft>>
       \/ \E predecessors \in CustomPredecessors(FromOCI(Top(stack).Node)) :
              /\ QueryAnswered(predecessors)
              /\ predOf' = IF FromOCI(Top(stack).Node) \in DOMAIN predOf
                           THEN predOf
                           ELSE predOf @@ (FromOCI(Top(stack).Node) :> predecessors)
              /\ edgesLeft' = IF FromOCI(Top(stack).Node) \in DOMAIN predOf
                              THEN edgesLeft
                              ELSE edgesLeft - Len(predecessors)
    /\ UNCHANGED <<filterVars, packVars, children, srcNil, dstNil, src, srcRef, dstRef, opts, dst, dstTags, node,
                   result, pending, copyStack, copied, run, prev>>

\* the stack is empty: findRoots returns roots and ExtendedCopyGraph ranges over it
FindRootsReturn ==
    /\ pc = "findRoots"
    /\ stack = <<>>
    /\ pending' = DOMAIN roots
    /\ pc' = "copy"
    /\ UNCHANGED <<filterVars, packVars, children, srcNil, dstNil, src, srcRef, dstRef, opts, dst, dstTags, node, err,
                   result, visited, roots, stack, copyStack, predOf, edgesLeft, io,
                   queried, discovered, copied, popped, run, prev>>

----------------------------------------------------------------------------
(* The predecessor walk alone, over a custom FindPredecessors *)

\* findRoots is about to walk from WalkStart; the custom function may list
\* budget predecessors in all
WalkFrom(budget) ==
    /\ srcNil = FALSE
    /\ dstNil = FALSE
    /\ src = [content |-> ChainContent, tags |-> TagAll(ChainContent)]
    /\ srcRef = ""
    /\ dstRef = ""
    /\ opts \in [Depth : -1..MaxDepth, FindPredecessors : {"custom"}]
    /\ dst = {}
    /\ dstTags = EmptyMap
    /\ predOf = EmptyMap
    /\ edgesLeft = budget
    /\ run = 1
    /\ prev = [dst |-> dst, dstTags |-> dstTags, roots |-> EmptyMap]
    /\ NoFilters
    /\ NoPack
    /\ pc = "findRoots"
    /\ node = <<WalkStart>>
    /\ err = NoErr
    /\ result = <<>>
    /\ visited = {}
    /\ roots = EmptyMap
    /\ stack = Push(<<>>, NodeInfo(WalkStart, 0))
    /\ pending = {}
    /\ copyStack = <<>>
    /\ io = <<>>
    /\ queried = <<>>
    /\ discovered = <<>>
    /\ copied = <<>>
    /\ popped = {}

InitWalk == WalkFrom(MaxEdges)

NextWalk ==
    \/ FindRootsSkipVisited
    \/ FindRootsDepthReached
    \/ FindRootsQueryCustom
    \/ FindRootsReturn

SpecWalk == InitWalk /\ [][NextWalk]_vars

\* findRoots is a sequential loop: as long as it has a step to take, it takes one
SpecWalkFair == WalkFrom(MaxFairEdges) /\ [][NextWalk]_vars /\ WF_vars(NextWalk)

----------------------------------------------------------------------------
(* ExtendedCopyGraph: one CopyGraph per root, in the order the range over   *)
(* the roots map yields them.  The iteration order of a Go map is not       *)
(* specified: any root not yet yielded may come next.                       *)

Frame(n) == [node |-> n, expanded |-> FALSE, todo |-> <<>>]

\* Mutant: ExtendedCopyGraph returns after the CopyGraph of one root
ExtendedCopyGraphRangeFirstOnly ==
    /\ pc = "copy"
    /\ \/ /\ pending = {} \/ copied # <<>>
          /\ pc' = "tag"
          /\ UNCHANGED <<pending, copied, copyStack>>
       \/ \E key \in pending :
              /\ copied = <<>>
              /\ pending' = pending \ {key}
              /\ copied' = Append(copied, key)
              /\ copyStack' = <<Frame(roots[key])>>
              /\ pc' = "copyGraph"
    /\ UNCHANGED <<filterVars, packVars, children, srcNil, dstNil, src, srcRef, dstRef, opts, dst, dstTags, node, err,
                   result, visited, roots, stack, predOf, edgesLeft, io, queried,
                   discovered, popped, run, prev>>

\* Mutant: every iteration of the range calls CopyGraph on the same root
ExtendedCopyGraphRangeSameRoot ==
    /\ pc = "copy"
    /\ \/ /\ pending = {}
          /\ pc' = "tag"
          /\ UNCHANGED <<pending, copied, copyStack>>
       \/ \E key \in pending :
              /\ pending' = pending \ {key}
              /\ copied' = Append(copied, CHOOSE k \in DOMAIN roots : TRUE)
              /\ copyStack' = <<Frame(roots[CHOOSE k \in DOMAIN roots : TRUE])>>
              /\ pc' = "copyGraph"
    /\ UNCHANGED <<filterVars, packVars, children, srcNil, dstNil, src, srcRef, dstRef, opts, dst, dstTags, node, err,
                   result, visited, roots, stack, predOf, edgesLeft, io, queried,
                   discovered, popped, run, prev>>

ExtendedCopyGraphRange ==
    /\ pc = "copy"
    /\ \/ /\ pending = {}
          /\ pc' = "tag"
          /\ UNCHANGED <<pending, copied, copyStack>>
       \/ \E key \in pending :
              /\ pending' = pending \ {key}
              /\ copied' = Append(copied, key)
              /\ copyStack' = <<Frame(roots[key])>>
              /\ pc' = "copyGraph"
    /\ UNCHANGED <<filterVars, packVars, children, srcNil, dstNil, src, srcRef, dstRef, opts, dst, dstTags, node, err,
                   result, visited, roots, stack, predOf, edgesLeft, io, queried,
                   discovered, popped, run, prev>>

----------------------------------------------------------------------------
(* CopyGraph: the downward copy of the sub-DAG of one root.  Successors are *)
(* traversed from the root; a descriptor is pushed to dst, if dst does not  *)
(* hold it, after its successors have been handled.                         *)

\* the errors an operation on a store can end with: its own, or cancellation
Failures(e) == IF e = NoErr THEN {ErrCanceled} ELSE {ErrCanceled, e}

ReplaceTop(stk, f) == [stk EXCEPT ![Len(stk)] = f]

\* the frame on top is done: CopyGraph returns when it was the root's
FrameDone ==
    /\ copyStack' = Pop(copyStack)
    /\ pc' = IF Len(copyStack) = 1 THEN "copy" ELSE pc
    /\ err' = err

\* find the successors of the node on top
CopyGraphSuccessors ==
    /\ pc = "copyGraph"
    /\ ~Top(copyStack).expanded
    /\ io' = IF IsManifestType(Top(copyStack).node.mediaType)
             THEN Append(io, "Fetch")
             ELSE io
    /\ \/ /\ IsManifestType(Top(copyStack).node.mediaType)
          /\ \E e \in Failures(Successors(src, Top(copyStack).node).err) : Returned(e)
          /\ UNCHANGED copyStack
       \/ /\ Successors(src, Top(copyStack).node).err = NoErr
          /\ copyStack' = ReplaceTop(copyStack,
                 [node |-> Top(copyStack).node, expanded |-> TRUE,
                  todo |-> Successors(src, Top(copyStack).node).nodes])
          /\ UNCHANGED <<pc, err>>
    /\ UNCHANGED <<filterVars, packVars, children, srcNil, dstNil, src, srcRef, dstRef, opts, dst, dstTags, node,
                   result, visited, roots, stack, pending, predOf, edgesLeft, queried,
                   discovered, copied, popped, run, prev>>

\* go down to the next successor of the node on top
CopyGraphDescend ==
    /\ pc = "copyGraph"
    /\ Top(copyStack).expanded
    /\ Top(copyStack).todo # <<>>
    /\ copyStack' = Push(ReplaceTop(copyStack,
                             [Top(copyStack) EXCEPT !.todo = Tail(@)]),
                         Frame(Head(Top(copyStack).todo)))
    /\ UNCHANGED <<filterVars, packVars, children, srcNil, dstNil, src, srcRef, dstRef, opts, dst, dstTags, pc, node,
                   err, result, visited, roots, stack, pending, predOf, edgesLeft, io,
                   queried, discovered, copied, popped, run, prev>>

\* the successors of the node on top are handled and dst holds the node
CopyGraphSkip ==
    /\ pc = "copyGraph"
    /\ Top(copyStack).expanded
    /\ Top(copyStack).todo = <<>>
    /\ Exists(dst, Top(copyStack).node)
    /\ io' = Append(io, "Exists")
    /\ \/ /\ Returned(ErrCanceled)
          /\ UNCHANGED copyStack
       \/ FrameDone
    /\ UNCHANGED <<filterVars, packVars, children, srcNil, dstNil, src, srcRef, dstRef, opts, dst, dstTags, node,
                   result, visited, roots, stack, pending, predOf, edgesLeft, queried,
                   discovered, copied, popped, run, prev>>

\* the successors of the node on top are handled and dst does not hold the
\* node: its content is fetched from src and pushed to dst
CopyGraphPush ==
    /\ pc = "copyGraph"
    /\ Top(copyStack).expanded
    /\ Top(copyStack).todo = <<>>
    /\ ~Exists(dst, Top(copyStack).node)
    /\ \/ /\ io' = Append(io, "Exists")
          /\ Returned(ErrCanceled)
          /\ UNCHANGED <<copyStack, dst>>
       \/ /\ io' = io \o <<"Exists", "Fetch">>
          /\ \E e \in Failures(Fetch(src, Top(copyStack).node).err) : Returned(e)
          /\ UNCHANGED <<copyStack, dst>>
       \/ /\ Fetch(src, Top(copyStack).node).err = NoErr
          /\ io' = io \o <<"Exists", "Fetch", "Push">>
          /\ \/ /\ Returned(ErrCanceled)
                /\ UNCHANGED <<copyStack, dst>>
             \/ /\ dst' = dst \cup {FromOCI(Top(copyStack).node)}
                /\ FrameDone
    /\ UNCHANGED <<filterVars, packVars, children, srcNil, dstNil, src, srcRef, dstRef, opts, dstTags, node,
                   result, visited, roots, stack, pending, predOf, edgesLeft, queried,
                   discovered, copied, popped, run, prev>>

----------------------------------------------------------------------------
(* ExtendedCopy: Tag and return *)

\* Mutant: a blank destination reference is used as it is
DstRefNoDefault(sref, dref) == dref

\* the destination reference is the source reference if left blank
DstRef(sref, dref) == IF dref = "" THEN sref ELSE dref

\* Tagger
Tag(tags, desc, ref) ==
    [r \in DOMAIN tags \cup {ref} |-> IF r = ref THEN desc ELSE tags[r]]

ExtendedCopyTag ==
    /\ pc = "tag"
    /\ io' = Append(io, "Tag")
    /\ \/ /\ Returned(ErrCanceled)
          /\ UNCHANGED <<dstTags, result>>
       \/ /\ dstTags' = Tag(dstTags, node[1], DstRef(srcRef, dstRef))
          /\ result' = node
          /\ pc' = "done"
          /\ err' = err
    /\ UNCHANGED <<filterVars, packVars, children, srcNil, dstNil, src, srcRef, dstRef, opts, dst, node, visited,
                   roots, stack, pending, copyStack, predOf, edgesLeft, queried,
                   discovered, copied, popped, run, prev>>

\* ExtendedCopy is called again with the same arguments after it succeeded
ExtendedCopyAgain ==
    /\ pc = "done"
    /\ err = NoErr
    /\ run < MaxRuns
    /\ run' = run + 1
    /\ prev' = [dst |-> dst, dstTags |-> dstTags, roots |-> roots]
    /\ pc' = "start"
    /\ node' = <<>>
    /\ result' = <<>>
    /\ visited' = {}
    /\ roots' = EmptyMap
    /\ stack' = <<>>
    /\ pending' = {}
    /\ copyStack' = <<>>
    /\ io' = <<>>
    /\ queried' = <<>>
    /\ discovered' = <<>>
    /\ copied' = <<>>
    /\ popped' = {}
    /\ UNCHANGED <<filterVars, packVars, children, srcNil, dstNil, src, srcRef, dstRef, opts, dst, dstTags, err,
                   predOf, edgesLeft>>

Next ==
    \/ ExtendedCopy
    \/ FindRootsSkipVisited
    \/ FindRootsDepthReached
    \/ FindRootsQuery
    \/ FindRootsReturn
    \/ ExtendedCopyGraphRange
    \/ CopyGraphSuccessors
    \/ CopyGraphDescend
    \/ CopyGraphSkip
    \/ CopyGraphPush
    \/ ExtendedCopyTag
    \/ ExtendedCopyAgain

Spec == Init /\ [][Next]_vars

----------------------------------------------------------------------------
(* Predecessor filters: FilterAnnotation, FilterArtifactType and the        *)
(* predecessor function they leave in opts.FindPredecessors.  The filters   *)
(* registered on opts are kept as a list; filter n wraps the function made  *)
(* of the filters before it.                                                *)

MaxFilters == 2
MaxAnswer == 2

\* The patterns of the model
Regexes == {"^x$", "y"}

\* regexp.MatchString, over the artifact types and annotation values of the model
MatchString(regex, value) ==
    CASE regex = "^x$" -> value = "x"
      [] regex = "y" -> value \in {"y", "xy"}
      [] OTHER -> FALSE

\* A stored manifest with its artifactType and annotations fields
WithFields(manifest, at, ann) ==
    [f \in DOMAIN manifest \cup {"artifactType", "annotations"} |->
        CASE f = "artifactType" -> at
          [] f = "annotations" -> ann
          [] OTHER -> manifest[f]]

\* The stored bytes of a manifest are not one well-formed JSON value: they
\* break off in a syntax error ("malformed") or go on after the value
\* ("trailing")
WithBytes(manifest, flaw) ==
    [f \in DOMAIN manifest \cup {"bytes"} |->
        IF f = "bytes" THEN flaw ELSE manifest[f]]

BytesOf(content) ==
    IF "bytes" \in DOMAIN content THEN content.bytes ELSE "json"

\* Mutant: the stream is closed only after a successful decode
DecodeStreamNoDefer(content, readAhead) ==
    [closed |-> BytesOf(content) # "malformed",
     drained |-> BytesOf(content) = "json" \/ readAhead]

\* The stream of a fetched manifest when the function literal of the range
\* loop returns: Close is deferred, and the decoder has read the first JSON
\* value, or up to the syntax error, and beyond it only what it buffered
DecodeStream(content, readAhead) ==
    [closed |-> TRUE,
     drained |-> BytesOf(content) = "json" \/ readAhead]

\* json decoding of the artifactType field: the zero value if it is absent
DecodeArtifactType(content) ==
    IF "artifactType" \in DOMAIN content THEN content.artifactType ELSE ""

\* json decoding of the annotations field: nil if it is absent
DecodeAnnotations(content) ==
    IF "annotations" \in DOMAIN content THEN content.annotations ELSE Nil

\* d is a legacy artifact manifest whose bytes are malformed, the bytes of b
\* go on after its JSON value;
\* blob s is the subject of the legacy artifacts a (type x) and b (type y,
\* annotated) and of the artifact c (type x, annotated), and a layer of the
\* annotated image m
FilterContent ==
    LET c0 == ("s" :> Blob(1)) @@ ("k" :> Config(2))
        a == WithFields(LegacyArtifact(3, <<AD(c0, "s")>>, <<>>), "x", Nil)
        b == WithFields(LegacyArtifact(4, <<AD(c0, "s")>>, <<>>), "y",
                        <<("k" :> "x")>>)
        c == WithFields(Artifact(5, <<D(c0, "s")>>, <<>>), "x", <<("k" :> "x")>>)
        m == WithFields(ImageManifest(MediaTypeImageManifest, 6, D(c0, "k"),
                                      <<D(c0, "s")>>), "", <<("k" :> "xy")>>)
        d == WithBytes(LegacyArtifact(7, <<>>, <<>>), "malformed")
    IN  c0 @@ ("a" :> a) @@ ("b" :> WithBytes(b, "trailing")) @@ ("c" :> c)
           @@ ("m" :> m) @@ ("d" :> d)

FilterStore == [content |-> FilterContent, tags |-> TagAll(FilterContent)]

\* The descriptors a custom FindPredecessors of the model may list: the stored
\* manifests, a with annotations of its own, and a manifest src does not hold
CustomDescs ==
    {D(FilterContent, dg) : dg \in {"a", "b", "c", "m", "d"}}
    \cup {Descriptor(LegacyMediaTypeArtifactManifest, "a", 3, <<("k" :> "y")>>),
          Descriptor(LegacyMediaTypeArtifactManifest, "z", 9, Nil)}

\* The subject a stored manifest declares, in the unified form
SubjectOf(manifest) ==
    CASE manifest.mediaType = LegacyMediaTypeArtifactManifest ->
           [i \in 1..Len(manifest.subject) |-> ArtifactToOCI(manifest.subject[i])]
      [] manifest.mediaType = MediaTypeArtifactManifest -> manifest.subject
      [] OTHER -> <<>>

\* The descriptor of a referrer: it carries the artifact type and the
\* annotations of the manifest
ReferrerDescriptor(content, dg) ==
    [StoredDescriptor(content, dg) EXCEPT
        !.artifactType = DecodeArtifactType(content[dg]),
        !.annotations = DecodeAnnotations(content[dg])]

\* ReferrerFinder: the stored manifests whose subject is desc
ReferrerSet(store, desc) ==
    {ReferrerDescriptor(store.content, dg) :
        dg \in {d \in DOMAIN store.content :
                   \E s \in Range(SubjectOf(store.content[d])) :
                       FromOCI(s) = FromOCI(desc)}}

\* A list cut into pages of n descriptors, the last one possibly shorter
Paginate(list, n) ==
    [i \in 1..((Len(list) + n - 1) \div n) |->
        SubSeq(list, (i - 1) * n + 1,
               IF i * n < Len(list) THEN i * n ELSE Len(list))]

\* The pages Referrers may hand to its callback: the referrers in any order,
\* in pages of any size
Referrers(store, desc) ==
    {Paginate(list, n) : list \in Orderings(ReferrerSet(store, desc)),
                         n \in 1..Cardinality(ReferrerSet(store, desc))}

\* The pages one after the other
RECURSIVE Concat(_)
Concat(pages) ==
    IF pages = <<>> THEN <<>> ELSE Head(pages) \o Concat(Tail(pages))

\* Mutant: only the first page of referrers is looked at
FindReferrersFirstPage(pages, regex) ==
    IF pages = <<>>
    THEN <<>>
    ELSE SelectSeq(Head(pages), LAMBDA r : MatchString(regex, r.artifactType))

\* findReferrersAndFilter: the callback appends the matching referrers of
\* each page
FindReferrersAndFilter(pages, regex) ==
    SelectSeq(Concat(pages), LAMBDA r : MatchString(regex, r.artifactType))

\* The outcome of the function literal that fetched the manifest of p and
\* decodes it: a decode error ends the range loop, otherwise p is kept as q
\* if keep holds; either way the stream is left as DecodeStream tells
Decoded(p, content, readAhead, keep, q) ==
    LET rc == DecodeStream(content, readAhead)
        stream == <<[digest |-> p.digest, closed |-> rc.closed,
                     drained |-> rc.drained]>>
    IN  IF BytesOf(content) = "malformed"
        THEN [err |-> ErrDecode, keep |-> FALSE, node |-> p, fetched |-> TRUE,
              stream |-> stream]
        ELSE [err |-> NoErr, keep |-> keep, node |-> q, fetched |-> TRUE,
              stream |-> stream]

\* Mutant: the manifest of every predecessor is fetched, whatever its media type
FilterArtifactTypeStepAnyMediaType(store, p, regex, readAhead) ==
    LET r == Fetch(store, p) IN
    IF r.err # NoErr
    THEN [err |-> r.err, keep |-> FALSE, node |-> p, fetched |-> TRUE,
          stream |-> <<>>]
    ELSE Decoded(p, r.content[1], readAhead,
                 MatchString(regex, DecodeArtifactType(r.content[1])), p)

\* FilterArtifactType: the body of the range loop for predecessor p
FilterArtifactTypeStep(store, p, regex, readAhead) ==
    IF p.mediaType = LegacyMediaTypeArtifactManifest
    THEN LET r == Fetch(store, p) IN
         IF r.err # NoErr
         THEN [err |-> r.err, keep |-> FALSE, node |-> p, fetched |-> TRUE,
               stream |-> <<>>]
         ELSE Decoded(p, r.content[1], readAhead,
                      MatchString(regex, DecodeArtifactType(r.content[1])), p)
    ELSE [err |-> NoErr, keep |-> FALSE, node |-> p, fetched |-> FALSE,
          stream |-> <<>>]

\* FilterAnnotation: the media types whose manifest is fetched for annotations
AnnotationFetchTypes ==
    {DockerMediaTypeManifest, MediaTypeImageManifest,
     DockerMediaTypeManifestList, MediaTypeImageIndex,
     LegacyMediaTypeArtifactManifest}

\* FilterAnnotation: the body of the range loop for predecessor p
FilterAnnotationStep(store, p, key, regex, readAhead) ==
    LET graft == p.annotations = Nil /\ p.mediaType \in AnnotationFetchTypes
        r == Fetch(store, p)
        stored == DecodeAnnotations(r.content[1])
        q == IF graft
             THEN [p EXCEPT !.annotations =
                       IF stored = Nil THEN <<EmptyMap>> ELSE stored]
             ELSE p
        ann == IF q.annotations = Nil THEN EmptyMap ELSE q.annotations[1]
        keep == /\ key \in DOMAIN ann
                /\ (regex = Nil \/ MatchString(regex[1], ann[key]))
    IN  IF graft /\ r.err # NoErr
        THEN [err |-> r.err, keep |-> FALSE, node |-> p, fetched |-> TRUE,
              stream |-> <<>>]
        ELSE IF graft
        THEN Decoded(p, r.content[1], readAhead, keep, q)
        ELSE [err |-> NoErr, keep |-> keep, node |-> q, fetched |-> FALSE,
              stream |-> <<>>]

\* Mutant: the range loop returns every predecessor it was given
RangeLoopKeepsAll(steps) ==
    LET failed == {i \in DOMAIN steps : steps[i].err # NoErr}
        first == CHOOSE i \in failed : \A j \in failed : i <= j
        done == IF failed = {} THEN steps ELSE SubSeq(steps, 1, first)
        fetches == SelectSeq(done, LAMBDA o : o.fetched)
    IN  [err |-> IF failed = {} THEN NoErr ELSE steps[first].err,
         nodes |-> IF failed = {}
                   THEN [i \in 1..Len(steps) |-> steps[i].node]
                   ELSE <<>>,
         io |-> [i \in 1..Len(fetches) |-> "Fetch"],
         streams |-> Concat([i \in 1..Len(done) |-> done[i].stream])]

\* The range loop of a filter, given the outcome of its body for each
\* predecessor: the first error ends the loop, otherwise the kept
\* predecessors are returned in order
RangeLoop(steps) ==
    LET failed == {i \in DOMAIN steps : steps[i].err # NoErr}
        first == CHOOSE i \in failed : \A j \in failed : i <= j
        done == IF failed = {} THEN steps ELSE SubSeq(steps, 1, first)
        fetches == SelectSeq(done, LAMBDA o : o.fetched)
        kept == SelectSeq(steps, LAMBDA o : o.keep)
    IN  [err |-> IF failed = {} THEN NoErr ELSE steps[first].err,
         nodes |-> IF failed = {}
                   THEN [i \in 1..Len(kept) |-> kept[i].node]
                   ELSE <<>>,
         io |-> [i \in 1..Len(fetches) |-> "Fetch"],
         streams |-> Concat([i \in 1..Len(done) |-> done[i].stream])]

FilterStep(store, f, p, readAhead) ==
    IF f.kind = "FilterArtifactType"
    THEN FilterArtifactTypeStep(store, p, f.regex[1], readAhead)
    ELSE FilterAnnotationStep(store, p, f.key, f.regex, readAhead)

\* Mutant: the referrers of src are used whatever was installed before
UsesReferrersAlways(o, fs, rf) ==
    /\ fs # <<>>
    /\ fs[1].kind = "FilterArtifactType"
    /\ rf

\* FilterArtifactType was registered on a nil FindPredecessors and src is a
\* ReferrerFinder: the filter asks src for the referrers
UsesReferrers(o, fs, rf) ==
    /\ fs # <<>>
    /\ fs[1].kind = "FilterArtifactType"
    /\ o.FindPredecessors = "nil"
    /\ rf

\* opts.FindPredecessors after the first n registrations, called on the node
\* the source answers ans for: [err, nodes], the store operations made, and
\* the streams src.Fetch handed to the filters as they are on return
RECURSIVE FindPredecessors(_, _, _, _, _, _)
FindPredecessors(n, o, fs, rf, store, ans) ==
    IF n = 0
    THEN [err |-> ans.err, nodes |-> ans.predecessors,
          io |-> IF o.FindPredecessors = "nil" THEN <<"Predecessors">> ELSE <<>>,
          streams |-> <<>>]
    ELSE IF n = 1 /\ UsesReferrers(o, fs, rf)
    THEN [err |-> ans.err,
          nodes |-> IF ans.err = NoErr
                    THEN FindReferrersAndFilter(ans.pages, fs[1].regex[1])
                    ELSE <<>>,
          io |-> <<"Referrers">>, streams |-> <<>>]
    ELSE LET inner == FindPredecessors(n - 1, o, fs, rf, store, ans)
             loop == RangeLoop([i \in 1..Len(inner.nodes) |->
                                   FilterStep(store, fs[n], inner.nodes[i],
                                              ans.readAhead)])
         IN  IF inner.err # NoErr
             THEN [err |-> inner.err, nodes |-> <<>>, io |-> inner.io,
                   streams |-> inner.streams]
             ELSE [err |-> loop.err, nodes |-> loop.nodes,
                   io |-> inner.io \o loop.io,
                   streams |-> inner.streams \o loop.streams]

\* Options with no filter yet, over a source that may be a ReferrerFinder
InitFilter ==
    /\ srcNil = FALSE
    /\ dstNil = FALSE
    /\ src = FilterStore
    /\ srcRef = ""
    /\ dstRef = ""
    /\ opts = [Depth |-> 0, FindPredecessors |-> "nil"]
    /\ dst = {}
    /\ dstTags = EmptyMap
    /\ predOf = EmptyMap
    /\ edgesLeft = 0
    /\ run = 1
    /\ prev = [dst |-> dst, dstTags |-> dstTags, roots |-> EmptyMap]
    /\ InitCall
    /\ filters = <<>>
    /\ referrerFinder \in BOOLEAN
    /\ answer = NoAnswer
    /\ found = <<>>
    /\ NoPack

\* opts.FindPredecessors = custom function
SetFindPredecessors ==
    /\ found = <<>>
    /\ opts.FindPredecessors = "nil"
    /\ opts' = [opts EXCEPT !.FindPredecessors = "custom"]
    /\ filters' = <<>>
    /\ UNCHANGED <<copyVars, packVars, children, io, referrerFinder, answer, found>>

\* opts.FilterArtifactType(regex): nothing is registered for a nil regex
FilterArtifactType ==
    /\ found = <<>>
    /\ Len(filters) < MaxFilters
    /\ \E regex \in {Nil} \cup {<<r>> : r \in Regexes} :
          filters' = IF regex = Nil
                     THEN filters
                     ELSE Append(filters, [kind |-> "FilterArtifactType",
                                           key |-> "", regex |-> regex])
    /\ UNCHANGED <<copyVars, packVars, children, opts, io, referrerFinder, answer, found>>

\* opts.FilterAnnotation(key, regex)
FilterAnnotation ==
    /\ found = <<>>
    /\ Len(filters) < MaxFilters
    /\ \E regex \in {Nil} \cup {<<r>> : r \in Regexes} :
          filters' = Append(filters, [kind |-> "FilterAnnotation",
                                      key |-> "k", regex |-> regex])
    /\ UNCHANGED <<copyVars, packVars, children, opts, io, referrerFinder, answer, found>>

\* The call has returned r
Called(r) ==
    /\ found' = <<[err |-> r.err, nodes |-> r.nodes, streams |-> r.streams]>>
    /\ io' = r.io

\* opts.FindPredecessors(ctx, src, s) where the innermost function asks src
\* for the referrers of s
CallReferrers ==
    /\ found = <<>>
    /\ UsesReferrers(opts, filters, referrerFinder)
    /\ \E e \in {NoErr, ErrCanceled} :
       \E pages \in IF e = NoErr THEN Referrers(src, D(src.content, "s"))
                                 ELSE {<<>>} :
       \E readAhead \in BOOLEAN :
          answer' = [err |-> e, predecessors |-> <<>>, pages |-> pages,
                     readAhead |-> readAhead]
    /\ Called(FindPredecessors(Len(filters), opts, filters, referrerFinder,
                               src, answer'))
    /\ UNCHANGED <<copyVars, packVars, children, opts, filters, referrerFinder>>

\* opts.FindPredecessors(ctx, src, s) where the innermost function is
\* src.Predecessors or the custom function
CallPredecessors ==
    /\ found = <<>>
    /\ ~UsesReferrers(opts, filters, referrerFinder)
    /\ \E e \in {NoErr, ErrCanceled} :
       \E list \in IF e # NoErr
                   THEN {<<>>}
                   ELSE IF opts.FindPredecessors = "nil"
                        THEN Predecessors(src, D(src.content, "s"))
                        ELSE SeqsUpTo(CustomDescs, MaxAnswer) :
       \E readAhead \in BOOLEAN :
          answer' = [err |-> e, predecessors |-> list, pages |-> <<>>,
                     readAhead |-> readAhead]
    /\ Called(FindPredecessors(Len(filters), opts, filters, referrerFinder,
                               src, answer'))
    /\ UNCHANGED <<copyVars, packVars, children, opts, filters, referrerFinder>>

NextFilter ==
    \/ SetFindPredecessors
    \/ FilterArtifactType
    \/ FilterAnnotation
    \/ CallReferrers
    \/ CallPredecessors

SpecFilter == InitFilter /\ [][NextFilter]_vars

----------------------------------------------------------------------------
(* ExtendedCopy with the built-in filters registered on the default options *)

\* blob s is a layer of the image m (config k, annotated), which the artifact
\* c (type x, annotated) refers to; s is the subject of the legacy artifacts a
\* (type x) and b (type y, annotated); the legacy artifact t (type x,
\* annotated) refers to a and lists s as a blob
GraphContent ==
    LET c0 == [dg \in {"s", "k", "a", "b", "m"} |-> FilterContent[dg]]
        c == WithFields(Artifact(5, <<D(c0, "m")>>, <<>>), "x", <<("k" :> "x")>>)
        t == WithFields(LegacyArtifact(8, <<AD(c0, "a")>>, <<AD(c0, "s")>>), "x",
                        <<("k" :> "x")>>)
    IN  c0 @@ ("c" :> c) @@ ("t" :> t)

GraphStore == [content |-> GraphContent, tags |-> TagAll(GraphContent)]

\* what FilterArtifactType and FilterAnnotation may have registered
BuiltinFilters ==
    {[kind |-> "FilterArtifactType", key |-> "", regex |-> <<r>>] : r \in Regexes}
    \cup {[kind |-> "FilterAnnotation", key |-> "k", regex |-> x] :
              x \in {Nil} \cup {<<r>> : r \in Regexes}}

\* ExtendedCopy is called with options on which up to MaxFilters built-in
\* filters were registered
InitFiltered ==
    /\ srcNil = FALSE
    /\ dstNil = FALSE
    /\ src = GraphStore
    /\ srcRef \in DOMAIN src.tags
    /\ dstRef = ""
    /\ opts \in [Depth : -1..MaxDepth, FindPredecessors : {"nil"}]
    /\ dst \in {{}, {FromOCI(D(GraphContent, "a"))}}
    /\ dstTags = EmptyMap
    /\ predOf = EmptyMap
    /\ edgesLeft = 0
    /\ run = 1
    /\ prev = [dst |-> dst, dstTags |-> dstTags, roots |-> EmptyMap]
    /\ filters \in SeqsUpTo(BuiltinFilters, MaxFilters)
    /\ referrerFinder \in BOOLEAN
    /\ answer = NoAnswer
    /\ found = <<>>
    /\ NoPack
    /\ InitCall

\* what the source may answer the innermost function asked about desc
SourceAnswers(desc) ==
    {[err |-> ErrCanceled, predecessors |-> <<>>, pages |-> <<>>,
      readAhead |-> FALSE]}
    \cup IF UsesReferrers(opts, filters, referrerFinder)
         THEN {[err |-> NoErr, predecessors |-> <<>>, pages |-> pages,
                readAhead |-> readAhead] :
                  pages \in IF ReferrerSet(src, desc) = {}
                            THEN {<<>>}
                            ELSE Referrers(src, desc),
                  readAhead \in BOOLEAN}
         ELSE {[err |-> NoErr, predecessors |-> list, pages |-> <<>>,
                readAhead |-> readAhead] :
                  list \in Predecessors(src, desc), readAhead \in BOOLEAN}

\* opts.FindPredecessors is the chain of the registered filters
FindRootsQueryFiltered ==
    /\ opts.FindPredecessors = "nil"
    /\ Querying
    /\ \E ans \in SourceAnswers(Top(stack).Node) :
          LET r == FindPredecessors(Len(filters), opts, filters, referrerFinder,
                                    src, ans)
          IN  IF r.err # NoErr
              THEN QueryFailed(r.err)
              ELSE QueryAnswered(r.nodes)
    /\ UNCHANGED <<filterVars, packVars, children, srcNil, dstNil, src, srcRef, dstRef, opts, dst, dstTags, node,
                   result, pending, copyStack, predOf, edgesLeft, copied, run, prev>>

NextFiltered ==
    \/ ExtendedCopy
    \/ FindRootsSkipVisited
    \/ FindRootsDepthReached
    \/ FindRootsQueryFiltered
    \/ FindRootsReturn
    \/ ExtendedCopyGraphRange
    \/ CopyGraphSuccessors
    \/ CopyGraphDescend
    \/ CopyGraphSkip
    \/ CopyGraphPush
    \/ ExtendedCopyTag

SpecFiltered == InitFiltered /\ [][NextFiltered]_vars

----------------------------------------------------------------------------
(* Successors alone, on one stored manifest of every shape *)

MaxChildren == 2

\* The descriptors a manifest of the model may name
ChildDescs ==
    {Descriptor(MediaTypeLayer, "p", 1, Nil),
     Descriptor(MediaTypeLayer, "q", 1, <<("k" :> "v")>>),
     Descriptor(MediaTypeImageManifest, "r", 6, Nil)}

\* The same descriptors in the legacy form
LegacyChildDescs ==
    {ArtifactDescriptor(d.mediaType, d.digest, d.size, d.annotations) :
        d \in ChildDescs}

\* The contents stored under the digest n: a manifest of each shape, or a blob
Shapes ==
    {ImageManifest(mt, 9, config, layers) :
        mt \in {DockerMediaTypeManifest, MediaTypeImageManifest},
        config \in ChildDescs, layers \in SeqsUpTo(ChildDescs, MaxChildren)}
    \cup {Index(mt, 9, manifests) :
        mt \in {DockerMediaTypeManifestList, MediaTypeImageIndex},
        manifests \in SeqsUpTo(ChildDescs, MaxChildren)}
    \cup {LegacyArtifact(9, subject, blobs) :
        subject \in {Nil} \cup {<<d>> : d \in LegacyChildDescs},
        blobs \in SeqsUpTo(LegacyChildDescs, MaxChildren)}
    \cup {Artifact(9, subject, blobs) :
        subject \in {Nil} \cup {<<d>> : d \in ChildDescs},
        blobs \in SeqsUpTo(ChildDescs, MaxChildren)}
    \cup {Blob(9), Config(9)}

\* Successors is about to be called on the node stored under n, or on the
\* descriptor of a manifest the store does not hold
InitSuccessors ==
    /\ srcNil = FALSE
    /\ dstNil = FALSE
    /\ \E content \in Shapes :
          /\ src \in {[content |-> ("n" :> content), tags |-> EmptyMap],
                      [content |-> EmptyMap, tags |-> EmptyMap]}
          /\ node = <<Descriptor(content.mediaType, "n", 9, Nil)>>
    /\ srcRef = ""
    /\ dstRef = ""
    /\ opts = [Depth |-> 0, FindPredecessors |-> "nil"]
    /\ dst = {}
    /\ dstTags = EmptyMap
    /\ predOf = EmptyMap
    /\ edgesLeft = 0
    /\ run = 1
    /\ prev = [dst |-> dst, dstTags |-> dstTags, roots |-> EmptyMap]
    /\ pc = "start"
    /\ err = NoErr
    /\ result = <<>>
    /\ visited = {}
    /\ roots = EmptyMap
    /\ stack = <<>>
    /\ pending = {}
    /\ copyStack = <<>>
    /\ io = <<>>
    /\ queried = <<>>
    /\ discovered = <<>>
    /\ copied = <<>>
    /\ popped = {}
    /\ NoFilters
    /\ NoPack

\* content.Successors(ctx, src, node)
SuccessorsCall ==
    /\ children = <<>>
    /\ children' = <<Successors(src, node[1])>>
    /\ io' = IF IsManifestType(node[1].mediaType) THEN <<"Fetch">> ELSE <<>>
    /\ UNCHANGED <<copyVars, filterVars, packVars, opts>>

NextSuccessors == SuccessorsCall

SpecSuccessors == InitSuccessors /\ [][NextSuccessors]_vars

----------------------------------------------------------------------------
(* The packers: Pack and PackArtifact build a manifest, serialise it and    *)
(* push it to a store.  Bytes are modelled by what the JSON encoder writes: *)
(* the fields present, a list as null or as its items, a map only if it    *)
(* has entries.                                                             *)

MaxPackRuns == 2

MediaTypeImageConfig == "application/vnd.oci.image.config.v1+json"

AnnotationArtifactCreated == "org.opencontainers.artifact.created"

ErrMissingArtifactType == "ErrMissingArtifactType"
ErrInvalidDateTimeFormat == "ErrInvalidDateTimeFormat"

\* The readings of the wall clock
Instants == 0..1

\* time.Format(time.RFC3339) of a clock reading
FormatRFC3339(t) ==
    CASE t = 0 -> "2022-11-05T00:00:00Z"
      [] t = 1 -> "2022-11-05T00:00:01Z"
      [] OTHER -> "2022-11-05T00:00:02Z"

\* Mutant: every value parses as a time
IsRFC3339Any(value) == TRUE

\* time.Parse(time.RFC3339, value) succeeds
IsRFC3339(value) ==
    value \in {"2000-01-01T00:00:00Z", "2022-11-05T00:00:00Z",
               "2022-11-05T00:00:01Z", "2022-11-05T00:00:02Z"}

\* Bytes with no field written
NoBytes ==
    [raw |-> "", schemaVersion |-> <<>>, mediaType |-> <<>>,
     artifactType |-> <<>>, config |-> <<>>, layers |-> <<>>, blobs |-> <<>>,
     subject |-> <<>>, annotations |-> <<>>]

\* []byte(s)
RawBytes(s) == [NoBytes EXCEPT !.raw = s]

\* len of the bytes of a blob
RawSize(s) ==
    CASE s = "{}" -> 2
      [] s = "hello world" -> 11
      [] OTHER -> 13

\* Mutant: the annotations written do not count for the digest
DigestWithoutAnnotations(bytes) ==
    [algorithm |-> "sha256", of |-> [bytes EXCEPT !.annotations = <<>>]]

\* digest.FromBytes: equal bytes, equal digest
Digest(bytes) == [algorithm |-> "sha256", of |-> bytes]

\* the number of bytes written: it grows with every field and every entry
Size(bytes) ==
    IF bytes.raw # ""
    THEN RawSize(bytes.raw)
    ELSE 2 + Len(bytes.schemaVersion) + Len(bytes.mediaType)
           + Len(bytes.artifactType) + Len(bytes.config) + Len(bytes.subject)
           + Len(bytes.annotations)
           + (IF bytes.layers = <<>> THEN 0 ELSE 1 + Len(bytes.layers[1].items))
           + (IF bytes.blobs = <<>> THEN 0 ELSE 1 + Len(bytes.blobs[1].items))

\* the descriptor of content
NewDescriptorFromBytes(mt, bytes) ==
    Descriptor(mt, Digest(bytes), Size(bytes), Nil)

\* json encoding of a slice: null for a nil slice, its items otherwise
MarshalList(list) ==
    [null |-> list = Nil, items |-> IF list = Nil THEN <<>> ELSE list[1]]

\* Mutant: the annotations are never written
MarshalAnnotationsOmitted(annotations) == <<>>

\* json encoding of a map field with omitempty
MarshalAnnotations(annotations) ==
    IF annotations = Nil
    THEN <<>>
    ELSE IF DOMAIN annotations[1] = {} THEN <<>> ELSE annotations

\* Mutant: the config field is not written
MarshalManifestNoConfig(v) ==
    [NoBytes EXCEPT !.schemaVersion = <<v.SchemaVersion>>,
                    !.mediaType = <<v.MediaType>>,
                    !.layers = <<MarshalList(v.Layers)>>,
                    !.annotations = MarshalAnnotations(v.Annotations)]

\* json.Marshal of ocispec.Manifest
MarshalManifest(v) ==
    [NoBytes EXCEPT !.schemaVersion = <<v.SchemaVersion>>,
                    !.mediaType = <<v.MediaType>>,
                    !.config = <<v.Config>>,
                    !.layers = <<MarshalList(v.Layers)>>,
                    !.annotations = MarshalAnnotations(v.Annotations)]

\* json.Marshal of ocispec.Artifact
MarshalArtifact(v) ==
    [NoBytes EXCEPT !.mediaType = <<v.MediaType>>,
                    !.artifactType = <<v.ArtifactType>>,
                    !.blobs = <<MarshalList(v.Blobs)>>,
                    !.subject = v.Subject,
                    !.annotations = MarshalAnnotations(v.Annotations)]

\* The descriptors of the test content
TestDescs ==
    <<NewDescriptorFromBytes("test", RawBytes("hello world")),
      NewDescriptorFromBytes("test", RawBytes("goodbye world"))>>

\* The lists of layers or blobs passed to a packer: nil, empty, the two
\* descriptors in either order
TestLists ==
    {Nil, <<<<>>>>, <<TestDescs>>, <<<<TestDescs[2], TestDescs[1]>>>>}

\* The config descriptor of Test_Pack_WithOptions
TestConfigDesc == NewDescriptorFromBytes(MediaTypeConfig, RawBytes("{}"))

\* The subject of Test_PackArtifact_WithOptions
TestSubjectDesc ==
    NewDescriptorFromBytes(MediaTypeImageManifest, RawBytes("{\"layers\":[]}"))

\* The calls of the model: Pack with every combination of options, and
\* PackArtifact with and without artifact type, subject and annotations
PackCalls ==
    {[op |-> "Pack", artifactType |-> "", items |-> items,
      configDescriptor |-> cd, configMediaType |-> cmt,
      configAnnotations |-> ca, subject |-> Nil, manifestAnnotations |-> ma] :
        items \in TestLists, cd \in {Nil, <<TestConfigDesc>>},
        cmt \in {"", MediaTypeImageConfig},
        ca \in {Nil, <<("foo" :> "bar")>>},
        ma \in {Nil, <<("foo" :> "bar")>>}}
    \cup
    {[op |-> "PackArtifact", artifactType |-> at, items |-> items,
      configDescriptor |-> Nil, configMediaType |-> "",
      configAnnotations |-> Nil, subject |-> subject,
      manifestAnnotations |-> ma] :
        at \in {"", "application/vnd.test"}, items \in TestLists,
        subject \in {Nil, <<TestSubjectDesc>>},
        ma \in {Nil, <<("foo" :> "bar")>>,
                <<(AnnotationArtifactCreated :> "2000-01-01T00:00:00Z")>>,
                <<(AnnotationArtifactCreated :> "2000/01/01 00:00:00")>>}}

\* Push of the store packed into: content already held is kept as it is
StorePush(store, desc, bytes) ==
    IF \E i \in 1..Len(store) : store[i].desc.digest = desc.digest
    THEN store
    ELSE Append(store, [desc |-> desc, bytes |-> bytes])

\* Pack: the config the manifest refers to, and whether Pack pushes it
PackConfig(args) ==
    LET mt == IF args.configMediaType = "" THEN MediaTypeConfig
              ELSE args.configMediaType
    IN  IF args.configDescriptor # Nil
        THEN [push |-> FALSE, desc |-> args.configDescriptor[1]]
        ELSE [push |-> TRUE,
              desc |-> [NewDescriptorFromBytes(mt, RawBytes("{}")) EXCEPT
                           !.annotations = args.configAnnotations]]

\* Pack: the bytes of the manifest; nil layers are written as an empty list
PackManifestBytes(args) ==
    MarshalManifest([SchemaVersion |-> 2,
                     MediaType |-> MediaTypeImageManifest,
                     Config |-> PackConfig(args).desc,
                     Layers |-> IF args.items = Nil THEN <<<<>>>> ELSE args.items,
                     Annotations |-> args.manifestAnnotations])

\* the annotations as a map; a nil map has no key
AnnotationsMap(annotations) ==
    IF annotations = Nil THEN EmptyMap ELSE annotations[1]

\* PackArtifact: validation of the artifact type and of the created annotation
ValidateArtifact(args) ==
    IF args.artifactType = ""
    THEN ErrMissingArtifactType
    ELSE IF /\ AnnotationArtifactCreated
                   \in DOMAIN AnnotationsMap(args.manifestAnnotations)
            /\ ~IsRFC3339(AnnotationsMap(args.manifestAnnotations)
                              [AnnotationArtifactCreated])
         THEN ErrInvalidDateTimeFormat
         ELSE NoErr

\* PackArtifact: the annotations with the created annotation, which is set
\* to the current time if the caller gave none
EnsureCreated(annotations, now) ==
    IF AnnotationArtifactCreated \in DOMAIN AnnotationsMap(annotations)
    THEN annotations
    ELSE <<[k \in DOMAIN AnnotationsMap(annotations) \cup {AnnotationArtifactCreated} |->
               IF k = AnnotationArtifactCreated
               THEN FormatRFC3339(now)
               ELSE AnnotationsMap(annotations)[k]]>>

\* PackArtifact: the bytes of the manifest packed at time now
PackArtifactBytes(args, now) ==
    MarshalArtifact([MediaType |-> MediaTypeArtifactManifest,
                     ArtifactType |-> args.artifactType,
                     Blobs |-> IF args.items = Nil THEN <<<<>>>> ELSE args.items,
                     Subject |-> args.subject,
                     Annotations |-> EnsureCreated(args.manifestAnnotations, now)])

\* A packer is about to be called on an empty store
InitPack ==
    /\ srcNil = FALSE
    /\ dstNil = FALSE
    /\ src = [content |-> EmptyMap, tags |-> EmptyMap]
    /\ srcRef = ""
    /\ dstRef = ""
    /\ opts = [Depth |-> 0, FindPredecessors |-> "nil"]
    /\ dst = {}
    /\ dstTags = EmptyMap
    /\ predOf = EmptyMap
    /\ edgesLeft = 0
    /\ run = 1
    /\ prev = [dst |-> dst, dstTags |-> dstTags, roots |-> EmptyMap]
    /\ InitCall
    /\ NoFilters
    /\ children = <<>>
    /\ packArgs \in PackCalls
    /\ packPc = "start"
    /\ packDst = <<>>
    /\ pushes = <<>>
    /\ packed = <<>>
    /\ packRuns = <<>>

\* the packer returns error e
PackFailed(e) ==
    /\ packed' = <<[err |-> e, desc |-> <<>>]>>
    /\ packPc' = "done"
    /\ UNCHANGED <<packDst, pushes>>

\* the packer pushes the manifest and returns its descriptor
PackPushed(desc, bytes) ==
    /\ packDst' = StorePush(packDst, desc, bytes)
    /\ pushes' = Append(pushes, [desc |-> desc, bytes |-> bytes])
    /\ packed' = <<[err |-> NoErr, desc |-> <<desc>>]>>
    /\ packPc' = "done"

\* Pack: no config descriptor is given, the config {} is pushed
PackPushConfig ==
    /\ packPc = "start"
    /\ packArgs.op = "Pack"
    /\ PackConfig(packArgs).push
    /\ \E e \in {NoErr, ErrCanceled} :
          IF e # NoErr
          THEN PackFailed(e)
          ELSE /\ packDst' = StorePush(packDst, PackConfig(packArgs).desc,
                                       RawBytes("{}"))
               /\ pushes' = Append(pushes, [desc |-> PackConfig(packArgs).desc,
                                            bytes |-> RawBytes("{}")])
               /\ packPc' = "manifest"
               /\ UNCHANGED packed
    /\ UNCHANGED <<copyVars, filterVars, opts, io, children, packArgs, packRuns>>

\* Pack: the manifest is built, serialised and pushed
PackPushManifest ==
    /\ packArgs.op = "Pack"
    /\ \/ packPc = "manifest"
       \/ packPc = "start" /\ ~PackConfig(packArgs).push
    /\ \E e \in {NoErr, ErrCanceled} :
          IF e # NoErr
          THEN PackFailed(e)
          ELSE PackPushed(NewDescriptorFromBytes(MediaTypeImageManifest,
                                                 PackManifestBytes(packArgs)),
                          PackManifestBytes(packArgs))
    /\ UNCHANGED <<copyVars, filterVars, opts, io, children, packArgs, packRuns>>

\* PackArtifact: validation, then the manifest is built with the created
\* annotation, serialised and pushed
PackArtifact ==
    /\ packPc = "start"
    /\ packArgs.op = "PackArtifact"
    /\ IF ValidateArtifact(packArgs) # NoErr
       THEN PackFailed(ValidateArtifact(packArgs))
       ELSE \E now \in Instants, e \in {NoErr, ErrCanceled} :
               IF e # NoErr
               THEN PackFailed(e)
               ELSE PackPushed(
                        NewDescriptorFromBytes(MediaTypeArtifactManifest,
                                               PackArtifactBytes(packArgs, now)),
                        PackArtifactBytes(packArgs, now))
    /\ UNCHANGED <<copyVars, filterVars, opts, io, children, packArgs, packRuns>>

\* the same call once more, on the same store
PackAgain ==
    /\ packPc = "done"
    /\ Len(packRuns) + 1 < MaxPackRuns
    /\ packRuns' = Append(packRuns, [pushes |-> pushes, packed |-> packed])
    /\ packPc' = "start"
    /\ pushes' = <<>>
    /\ packed' = <<>>
    /\ UNCHANGED <<copyVars, filterVars, opts, io, children, packArgs, packDst>>

NextPack ==
    \/ PackPushConfig
    \/ PackPushManifest
    \/ PackArtifact
    \/ PackAgain

SpecPack == InitPack /\ [][NextPack]_vars

----------------------------------------------------------------------------
(* Graph notions the properties are stated with *)

\* The keys of the children a stored manifest declares, read from its fields
DeclaredChildren(m) ==
    CASE m.mediaType \in {DockerMediaTypeManifest, MediaTypeImageManifest} ->
           {FromOCI(m.config)} \cup {FromOCI(l) : l \in Range(m.layers)}
      [] m.mediaType \in {DockerMediaTypeManifestList, MediaTypeImageIndex} ->
           {FromOCI(c) : c \in Range(m.manifests)}
      [] m.mediaType = LegacyMediaTypeArtifactManifest ->
           {[MediaType |-> c.MediaType, Digest |-> c.Digest, Size |-> c.Size] :
               c \in Range(m.subject) \cup Range(m.blobs)}
      [] m.mediaType = MediaTypeArtifactManifest ->
           {FromOCI(c) : c \in Range(m.subject) \cup Range(m.blobs)}
      [] OTHER -> {}

\* No manifest of the store is in d while one of its declared children is not
Closed(store, d) ==
    \A dg \in DOMAIN store.content :
        FromOCI(StoredDescriptor(store.content, dg)) \in d
            => DeclaredChildren(store.content[dg]) \subseteq d

\* The descriptors reachable from the descriptors S through Successors
RECURSIVE Descendants(_, _)
Descendants(store, S) ==
    LET T == S \cup UNION {Range(Successors(store, d).nodes) : d \in S}
    IN  IF T = S THEN S ELSE Descendants(store, T)

\* The keys the custom FindPredecessors has listed for a key
PredKeys(key) ==
    IF key \in DOMAIN predOf THEN {FromOCI(p) : p \in Range(predOf[key])} ELSE {}

\* The keys within n applications of the predecessor function from the keys S
RECURSIVE Within(_, _)
Within(S, n) ==
    IF n = 0 THEN S ELSE Within(S \cup UNION {PredKeys(k) : k \in S}, n - 1)

\* The keys reachable from the keys S by the predecessor function
RECURSIVE Ancestors(_)
Ancestors(S) ==
    LET T == S \cup UNION {PredKeys(k) : k \in S}
    IN  IF T = S THEN S ELSE Ancestors(T)

NoDuplicates(s) == \A i, j \in 1..Len(s) : s[i] = s[j] => i = j

IsPrefix(s, t) == Len(s) <= Len(t) /\ SubSeq(t, 1, Len(s)) = s

\* ExtendedCopyGraph has returned without error
GraphCopied == pc = "tag" \/ (pc = "done" /\ err = NoErr)

\* findRoots of the predecessor walk alone has returned without error
Walked == pc = "copy"

----------------------------------------------------------------------------
(* Properties *)

\* C1: every step of ExtendedCopyGraph taken from a destination in which no
\* manifest is present while one of its declared children is absent leads to
\* a destination of which the same is true.
C1_PostOrder == [][Closed(src, dst) => Closed(src, dst')]_vars

\* C1 witness: a manifest with children was pushed, during a CopyGraph, into a
\* destination that satisfied the invariant when the run started.
C1_Witness ==
    /\ pc = "copyGraph"
    /\ run = 1
    /\ Closed(src, prev.dst)
    /\ \E dg \in DOMAIN src.content :
           /\ FromOCI(StoredDescriptor(src.content, dg)) \in dst \ prev.dst
           /\ DeclaredChildren(src.content[dg]) # {}
           /\ DeclaredChildren(src.content[dg]) \ prev.dst # {}

\* C2: when ExtendedCopyGraph has returned without error, every descriptor
\* reachable through Successors from every root found by the walk is in dst.
C2_AllCopied ==
    GraphCopied =>
        \A key \in DOMAIN roots :
            {FromOCI(d) : d \in Descendants(src, {roots[key]})} \subseteq dst

\* C2 witness: a successful copy of two roots that pushed content.
C2_Witness ==
    /\ pc = "done"
    /\ err = NoErr
    /\ run = 1
    /\ Cardinality(DOMAIN roots) = 2
    /\ Cardinality(dst \ prev.dst) >= 3

\* C3: with depth <= 0 the roots returned are exactly the keys reachable from
\* the starting node by the predecessor function whose predecessor list is
\* empty (every reachable key having been asked for its predecessors).
C3_UnboundedRoots ==
    (Walked /\ opts.Depth <= 0) =>
        /\ Ancestors({FromOCI(node[1])}) \subseteq DOMAIN predOf
        /\ DOMAIN roots =
               {k \in Ancestors({FromOCI(node[1])}) : predOf[k] = <<>>}

\* C3 witness: an unbounded walk that returned two roots and passed a key
\* that is no root.
C3_Witness ==
    /\ Walked
    /\ opts.Depth <= 0
    /\ Cardinality(DOMAIN roots) = 2
    /\ Cardinality(DOMAIN predOf) = 3

\* C4: with depth = k > 0 every root is within k applications of the
\* predecessor function from the starting node, and a node popped at depth k
\* is a recorded root whose predecessors were not queried.
C4_DepthCap ==
    opts.Depth > 0 =>
        /\ DOMAIN roots \subseteq Within({FromOCI(node[1])}, opts.Depth)
        /\ \A e \in popped :
               e[2] = opts.Depth =>
                   e[1] \in DOMAIN roots /\ e[1] \notin Range(queried)

\* C4 witness: a bounded walk returned a root that it popped at the depth
\* cap and popped again, already visited, at a smaller depth.
C4_Witness ==
    /\ Walked
    /\ opts.Depth = 2
    /\ \E k \in DOMAIN roots : <<k, 2>> \in popped /\ <<k, 1>> \in popped

\* The store of scenario S5 and the keys of its manifests
ChainStore == [content |-> ChainContent, tags |-> TagAll(ChainContent)]

ChainKey(dg) == FromOCI(StoredDescriptor(ChainContent, dg))

\* C5 as stated: in the store where a's subject is b and b's subject is c,
\* the walk started from a returns {c} without depth limit and {b} with
\* depth 1.
C5_Original ==
    (src = ChainStore /\ srcRef = TagOf("a") /\ pc = "copy") =>
        /\ opts.Depth <= 0 => DOMAIN roots = {ChainKey("c")}
        /\ opts.Depth = 1 => DOMAIN roots = {ChainKey("b")}

\* C5 amended: in that store the walk started from a returns {a} for every
\* depth, and the walk started from c returns {a} without depth limit and {b}
\* with depth 1.
C5_UpwardRoots ==
    (src = ChainStore /\ pc = "copy") =>
        /\ srcRef = TagOf("a") => DOMAIN roots = {ChainKey("a")}
        /\ (srcRef = TagOf("c") /\ opts.Depth <= 0) => DOMAIN roots = {ChainKey("a")}
        /\ (srcRef = TagOf("c") /\ opts.Depth = 1) => DOMAIN roots = {ChainKey("b")}

\* C5 witness: the walk started from c with depth 1 has returned {b}.
C5_Witness ==
    /\ src = ChainStore
    /\ srcRef = TagOf("c")
    /\ opts.Depth = 1
    /\ pc = "copy"
    /\ DOMAIN roots = {ChainKey("b")}
    /\ Len(queried) = 1

\* C6: during one predecessor walk no key has its predecessors queried more
\* than once.
C6_NoRefetch == NoDuplicates(queried)

\* C6 witness: a finished walk over a predecessor function with a cycle in
\* which one list names the same key twice, with different annotations.
C6_Witness ==
    /\ Walked
    /\ Len(queried) >= 2
    /\ \E k \in DOMAIN predOf : k \in Ancestors(PredKeys(k))
    /\ \E k \in DOMAIN predOf :
           \E i, j \in 1..Len(predOf[k]) :
               /\ i # j
               /\ FromOCI(predOf[k][i]) = FromOCI(predOf[k][j])
               /\ predOf[k][i] # predOf[k][j]

C8_Idempotent ==
    run >= 2 =>
        /\ dst = prev.dst
        /\ dstTags = prev.dstTags
        /\ "Push" \notin Range(io)

\* C9: the step in which a store operation fails ends the call with that
\* error and without result, pushes and tags nothing; no step taken after an
\* error attempts a store operation; and no step removes content from dst.
C9_ErrorStops ==
    [][/\ err' # NoErr =>
             /\ pc' = "done"
             /\ result' = <<>>
             /\ dst' = dst
             /\ dstTags' = dstTags
       /\ err # NoErr =>
             /\ err' = err
             /\ UNCHANGED <<io, queried, copied, dst, dstTags>>
       /\ dst \subseteq dst']_vars

\* C9 witness: a CopyGraph was cancelled after content was pushed and while a
\* root was still to be copied.
C9_Witness ==
    /\ pc = "done"
    /\ err = ErrCanceled
    /\ run = 1
    /\ dst # prev.dst
    /\ pending # {}
    /\ copyStack # <<>>

\* C10: with a nil source or a nil destination no store operation is ever
\* attempted, the destination is left as it was, and the call returns the
\* error of the nil check.
C10_NilTarget ==
    (srcNil \/ dstNil) =>
        /\ io = <<>>
        /\ queried = <<>>
        /\ dst = prev.dst
        /\ dstTags = prev.dstTags
        /\ pc \in {"start", "done"}
        /\ pc = "done" => err = IF srcNil THEN ErrNilSource ELSE ErrNilDestination

\* C10 witness: the call with a source and a nil destination has returned.
C10_Witness ==
    /\ pc = "done"
    /\ ~srcNil
    /\ dstNil
    /\ err = ErrNilDestination
    /\ srcRef \in DOMAIN src.tags

\* C11: Tag is the last store operation of a call and is attempted only after
\* CopyGraph has completed on every root; a call that returned without error
\* returned the descriptor srcRef resolves to and tagged it in dst under
\* dstRef, or under srcRef when dstRef is blank; the tags of dst change in no
\* other way, and not at all in a call that returned an error.
C11_TagLast ==
    /\ "Tag" \in Range(io) =>
           /\ io[Len(io)] = "Tag"
           /\ Cardinality({i \in 1..Len(io) : io[i] = "Tag"}) = 1
           /\ pc = "done"
           /\ pending = {}
           /\ copyStack = <<>>
           /\ Range(copied) = DOMAIN roots
    /\ (pc = "done" /\ err = NoErr) =>
           /\ result = <<src.tags[srcRef]>>
           /\ dstTags = [r \in DOMAIN prev.dstTags
                                  \cup {IF dstRef = "" THEN srcRef ELSE dstRef} |->
                            IF r = (IF dstRef = "" THEN srcRef ELSE dstRef)
                            THEN src.tags[srcRef]
                            ELSE prev.dstTags[r]]
    /\ ~(pc = "done" /\ err = NoErr) =>
           /\ dstTags = prev.dstTags
           /\ result = <<>>

\* C11 witness: a call with a blank dstRef has copied two roots and returned
\* after tagging the resolved descriptor under srcRef.
C11_Witness ==
    /\ pc = "done"
    /\ err = NoErr
    /\ dstRef = ""
    /\ Len(copied) = 2
    /\ srcRef \in DOMAIN dstTags
    /\ dstTags[srcRef] = node[1]
    /\ io[Len(io)] = "Tag"

----------------------------------------------------------------------------
(* Properties of the predecessor filters *)

\* the predecessor function has been called and returned without error
FoundOk == found # <<>> /\ found[1].err = NoErr

\* positions <<page, index>> of the referrers whose artifact type matches
Hits(pages, regex) ==
    UNION {{<<i, j>> : j \in {k \in 1..Len(pages[i]) :
                                 MatchString(regex, pages[i][k].artifactType)}} :
           i \in 1..Len(pages)}

\* the hits that come before position h in page order
HitsBefore(pages, regex, h) ==
    {g \in Hits(pages, regex) : g[1] < h[1] \/ (g[1] = h[1] /\ g[2] < h[2])}

\* C12: when FilterArtifactType(regex) is the first predecessor override and
\* the source is a ReferrerFinder, the predecessors returned are exactly the
\* referrers of all pages whose artifact type matches the regex, in page order.
C12_ReferrersFiltered ==
    (/\ FoundOk
     /\ referrerFinder
     /\ opts.FindPredecessors = "nil"
     /\ Len(filters) = 1
     /\ filters[1].kind = "FilterArtifactType")
    => LET pages == answer.pages
           regex == filters[1].regex[1]
           nodes == found[1].nodes
       IN  /\ Len(nodes) = Cardinality(Hits(pages, regex))
           /\ \A h \in Hits(pages, regex) :
                 nodes[Cardinality(HitsBefore(pages, regex, h)) + 1]
                     = pages[h[1]][h[2]]
           /\ io = <<"Referrers">>

\* C12 witness: referrers typed x, y, x on more than one page and the regex
\* ^x$ gave the two referrers typed x, in page order.
C12_Witness ==
    /\ FoundOk
    /\ referrerFinder
    /\ filters = <<[kind |-> "FilterArtifactType", key |-> "", regex |-> <<"^x$">>]>>
    /\ Len(answer.pages) = 2
    /\ [i \in 1..3 |-> Concat(answer.pages)[i].artifactType] = <<"x", "y", "x">>
    /\ Len(found[1].nodes) = 2
    /\ found[1].nodes[1] = answer.pages[1][1]
    /\ found[1].nodes[2] = answer.pages[2][Len(answer.pages[2])]

\* a FilterArtifactType was registered after another predecessor override
RegisteredAfterOverride ==
    \E n \in 1..Len(filters) :
        /\ filters[n].kind = "FilterArtifactType"
        /\ (n > 1 \/ opts.FindPredecessors # "nil")

\* C13 as stated: when FilterArtifactType is installed after another
\* predecessor override (a custom function or a filter registered before),
\* Referrers of the source is never invoked.
C13_Original ==
    (found # <<>> /\ RegisteredAfterOverride) => "Referrers" \notin Range(io)

\* C13: a FilterArtifactType installed after another predecessor override
\* never invokes Referrers itself: Referrers is invoked, once and before any
\* other store operation, exactly when the first override of all is a
\* FilterArtifactType with a regex and the source is a ReferrerFinder; after
\* a custom FindPredecessors it is never invoked.
C13_NoFastPath ==
    found # <<>> =>
        /\ "Referrers" \in Range(io) <=>
               /\ referrerFinder
               /\ opts.FindPredecessors = "nil"
               /\ filters # <<>>
               /\ filters[1].kind = "FilterArtifactType"
        /\ \A i \in 1..Len(io) : io[i] = "Referrers" => i = 1

\* C13 witness: over a ReferrerFinder, FilterArtifactType was registered after
\* FilterAnnotation and the call asked src.Predecessors, not Referrers.
C13_Witness ==
    /\ FoundOk
    /\ referrerFinder
    /\ Len(filters) = 2
    /\ filters[1].kind = "FilterAnnotation"
    /\ filters[2].kind = "FilterArtifactType"
    /\ io[1] = "Predecessors"
    /\ found[1].nodes # <<>>

\* some registered filter is a FilterArtifactType
ArtifactTypeActive ==
    \E n \in 1..Len(filters) : filters[n].kind = "FilterArtifactType"

\* C14 as stated: whenever FilterArtifactType is active, no predecessor of a
\* media type other than the legacy artifact manifest is returned, on any path.
C14_Original ==
    (FoundOk /\ ArtifactTypeActive) =>
        \A p \in Range(found[1].nodes) :
            p.mediaType = LegacyMediaTypeArtifactManifest

\* C14: whenever FilterArtifactType is active and the predecessors do not come
\* from Referrers, no predecessor of a media type other than the legacy
\* artifact manifest is returned; a referrer is kept by its artifact type
\* alone, whatever its media type.
C14_WrappedDropsOthers ==
    (FoundOk /\ ArtifactTypeActive) =>
        IF "Referrers" \in Range(io)
        THEN \A p \in Range(found[1].nodes) :
                 p \in Range(Concat(answer.pages))
                 /\ MatchString(filters[1].regex[1], p.artifactType)
        ELSE \A p \in Range(found[1].nodes) :
                 p.mediaType = LegacyMediaTypeArtifactManifest

\* C14 witness: src.Predecessors listed the artifact c and the image m along
\* with the legacy artifacts, and the filter returned legacy artifacts only.
C14_Witness ==
    /\ FoundOk
    /\ ArtifactTypeActive
    /\ "Referrers" \notin Range(io)
    /\ \E p \in Range(answer.predecessors) : p.mediaType = MediaTypeArtifactManifest
    /\ \E p \in Range(answer.predecessors) : p.mediaType = MediaTypeImageManifest
    /\ found[1].nodes # <<>>

\* the annotations FilterAnnotation is expected to use for predecessor p: its
\* own, or those of its stored manifest if it has none and is a manifest
AnnotationsUsed(store, p) ==
    IF p.annotations # Nil
    THEN p.annotations[1]
    ELSE IF IsManifestType(p.mediaType)
              /\ DecodeAnnotations(Fetch(store, p).content[1]) # Nil
         THEN DecodeAnnotations(Fetch(store, p).content[1])[1]
         ELSE EmptyMap

\* C15: FilterAnnotation(key, regex) keeps a predecessor iff key is in its
\* annotations and the regex is none or matches the value, the annotations of
\* a predecessor that carries none and is of a manifest media type (image
\* manifest, index, legacy artifact manifest, OCI artifact manifest) being
\* those of its stored manifest.
C15_AnnotationKept ==
    (/\ FoundOk
     /\ Len(filters) = 1
     /\ filters[1].kind = "FilterAnnotation")
    => LET f == filters[1]
           kept == SelectSeq(answer.predecessors,
                       LAMBDA p :
                           /\ f.key \in DOMAIN AnnotationsUsed(src, p)
                           /\ \/ f.regex = Nil
                              \/ MatchString(f.regex[1],
                                             AnnotationsUsed(src, p)[f.key]))
       IN  [i \in 1..Len(found[1].nodes) |-> FromOCI(found[1].nodes[i])]
               = [i \in 1..Len(kept) |-> FromOCI(kept[i])]

----------------------------------------------------------------------------
(* Properties of Successors *)

\* the legacy descriptor d in the unified form, field by field
Unified(d) ==
    [mediaType |-> d.MediaType, digest |-> d.Digest, size |-> d.Size,
     annotations |-> d.Annotations, artifactType |-> d.ArtifactType]

\* C16: Successors returns the children in manifest field order: the config
\* followed by the layers for Docker and OCI image manifests, the manifests
\* for a manifest list or index, the subject (first, if present) followed by
\* the blobs for legacy and OCI artifact manifests, and the empty sequence
\* with no error for any other media type.
C16_FieldOrder ==
    children # <<>> =>
        LET mt == node[1].mediaType
            r == children[1].nodes
            m == src.content["n"]
        IN  /\ ~IsManifestType(mt) => children[1].err = NoErr /\ r = <<>> /\ io = <<>>
            /\ (IsManifestType(mt) /\ children[1].err = NoErr) =>
                  CASE mt \in {DockerMediaTypeManifest, MediaTypeImageManifest} ->
                         /\ Len(r) = 1 + Len(m.layers)
                         /\ r[1] = m.config
                         /\ \A i \in 1..Len(m.layers) : r[i + 1] = m.layers[i]
                    [] mt \in {DockerMediaTypeManifestList, MediaTypeImageIndex} ->
                         r = m.manifests
                    [] mt = LegacyMediaTypeArtifactManifest ->
                         /\ Len(r) = Len(m.subject) + Len(m.blobs)
                         /\ m.subject # Nil => r[1] = Unified(m.subject[1])
                         /\ \A i \in 1..Len(m.blobs) :
                               r[Len(m.subject) + i] = Unified(m.blobs[i])
                    [] mt = MediaTypeArtifactManifest ->
                         /\ Len(r) = Len(m.subject) + Len(m.blobs)
                         /\ m.subject # Nil => r[1] = m.subject[1]
                         /\ \A i \in 1..Len(m.blobs) :
                               r[Len(m.subject) + i] = m.blobs[i]

\* C16 witness: Successors returned the subject and then the two different
\* blobs of a legacy artifact manifest, in the unified form.
C16_Witness ==
    /\ children # <<>>
    /\ children[1].err = NoErr
    /\ node[1].mediaType = LegacyMediaTypeArtifactManifest
    /\ Len(children[1].nodes) = 3
    /\ children[1].nodes[1].digest = src.content["n"].subject[1].Digest
    /\ children[1].nodes[2].digest # children[1].nodes[3].digest
    /\ children[1].nodes[3].digest = src.content["n"].blobs[2].Digest

----------------------------------------------------------------------------
(* Properties of the packers *)

\* the packer calls that have returned: the earlier ones and the current one
PackReturned ==
    packRuns \o (IF packPc = "done"
                 THEN <<[pushes |-> pushes, packed |-> packed]>>
                 ELSE <<>>)

\* the annotations the caller passed, as a map
Supplied == AnnotationsMap(packArgs.manifestAnnotations)

\* the caller passed the created annotation 2000/01/01 00:00:00, which is not
\* an RFC 3339 time
CreatedInvalid ==
    /\ AnnotationArtifactCreated \in DOMAIN Supplied
    /\ Supplied[AnnotationArtifactCreated] = "2000/01/01 00:00:00"

\* C17: PackArtifact with an empty artifact type returns
\* ErrMissingArtifactType, and with a created annotation that is not RFC 3339
\* it returns ErrInvalidDateTimeFormat; in both cases nothing is pushed and
\* the store is left unchanged.
C17_ValidationFirst ==
    [][(/\ packArgs.op = "PackArtifact"
        /\ packPc = "start"
        /\ (packArgs.artifactType = "" \/ CreatedInvalid))
       => /\ packDst' = packDst
          /\ pushes' = <<>>
          /\ packPc' = "done"
          /\ packed' = <<[err |-> IF packArgs.artifactType = ""
                                  THEN ErrMissingArtifactType
                                  ELSE ErrInvalidDateTimeFormat,
                          desc |-> <<>>]>>]_vars

\* C17 witness: PackArtifact with an artifact type and the created annotation
\* 2000/01/01 00:00:00 has returned ErrInvalidDateTimeFormat; nothing was
\* pushed and the store is empty as before.
C17_Witness ==
    /\ packArgs.op = "PackArtifact"
    /\ packPc = "done"
    /\ packArgs.artifactType # ""
    /\ CreatedInvalid
    /\ packed[1].err = ErrInvalidDateTimeFormat
    /\ pushes = <<>>
    /\ packDst = <<>>

\* the manifest a returned call wrote: its last push
Written(r) == r.pushes[Len(r.pushes)].bytes

\* C18 as stated: given the same inputs, Pack and PackArtifact write identical
\* manifest bytes and return the same digest on every run.
C18_Original ==
    \A i, j \in 1..Len(PackReturned) :
        (PackReturned[i].packed[1].err = NoErr /\ PackReturned[j].packed[1].err = NoErr)
        => /\ Written(PackReturned[i]) = Written(PackReturned[j])
           /\ PackReturned[i].packed[1].desc[1].digest
                  = PackReturned[j].packed[1].desc[1].digest

\* C18: given the same inputs, Pack writes identical manifest bytes and
\* returns the same digest on every run, and so does PackArtifact when the
\* caller supplies the created annotation; without it the manifests of two
\* runs are identical except for the value of the created annotation, and
\* the digests are equal exactly when the bytes are.
C18_Deterministic ==
    \A i, j \in 1..Len(PackReturned) :
        (PackReturned[i].packed[1].err = NoErr /\ PackReturned[j].packed[1].err = NoErr)
        => LET bi == Written(PackReturned[i])
               bj == Written(PackReturned[j])
               di == PackReturned[i].packed[1].desc[1].digest
               dj == PackReturned[j].packed[1].desc[1].digest
           IN  /\ (di = dj) <=> (bi = bj)
               /\ (packArgs.op = "Pack"
                     \/ AnnotationArtifactCreated \in DOMAIN Supplied)
                  => bi = bj
               /\ [bi EXCEPT !.annotations = <<>>] = [bj EXCEPT !.annotations = <<>>]
               /\ DOMAIN AnnotationsMap(bi.annotations)
                      = DOMAIN AnnotationsMap(bj.annotations)
               /\ \A k \in DOMAIN AnnotationsMap(bi.annotations)
                               \ {AnnotationArtifactCreated} :
                      bi.annotations[1][k] = bj.annotations[1][k]

\* C18 witness: PackArtifact with a supplied created annotation and a subject
\* has run twice, pushed once each time and returned the same digest.
C18_Witness ==
    /\ Len(PackReturned) = 2
    /\ packArgs.op = "PackArtifact"
    /\ AnnotationArtifactCreated \in DOMAIN Supplied
    /\ packArgs.subject # Nil
    /\ PackReturned[1].packed[1].err = NoErr
    /\ PackReturned[2].packed[1].err = NoErr
    /\ PackReturned[1].packed[1].desc = PackReturned[2].packed[1].desc
    /\ Len(packDst) = 1

\* C19: when no config descriptor is supplied Pack pushes the two bytes {}
\* under the config media type, or the unknown-config media type when none
\* is given, and then the manifest that refers to it; when a config
\* descriptor is supplied the manifest refers to exactly that descriptor and
\* neither the config media type nor the config annotations show in it.
C19_ConfigRule ==
    (packArgs # <<>> /\ packArgs.op = "Pack" /\ packPc = "done"
        /\ packed[1].err = NoErr)
    => IF packArgs.configDescriptor = Nil
       THEN /\ Len(pushes) = 2
            /\ pushes[1].bytes = RawBytes("{}")
            /\ pushes[1].desc.size = 2
            /\ pushes[1].desc.digest = Digest(RawBytes("{}"))
            /\ pushes[1].desc.mediaType =
                   IF packArgs.configMediaType = ""
                   THEN "application/vnd.unknown.config.v1+json"
                   ELSE packArgs.configMediaType
            /\ pushes[2].bytes.config = <<pushes[1].desc>>
            /\ packed[1].desc = <<pushes[2].desc>>
       ELSE /\ Len(pushes) = 1
            /\ packed[1].desc = <<pushes[1].desc>>
            /\ pushes[1].bytes =
                   [NoBytes EXCEPT
                       !.schemaVersion = <<2>>,
                       !.mediaType = <<MediaTypeImageManifest>>,
                       !.config = packArgs.configDescriptor,
                       !.layers = <<[null |-> FALSE,
                                     items |-> IF packArgs.items = Nil THEN <<>>
                                               ELSE packArgs.items[1]]>>,
                       !.annotations = IF packArgs.manifestAnnotations = Nil
                                       THEN <<>>
                                       ELSE packArgs.manifestAnnotations]

\* C19 witness: Pack was given a config descriptor together with a config
\* media type and config annotations, and pushed the manifest alone.
C19_Witness ==
    /\ packArgs # <<>>
    /\ packArgs.op = "Pack"
    /\ packPc = "done"
    /\ packed[1].err = NoErr
    /\ packArgs.configDescriptor # Nil
    /\ packArgs.configMediaType = MediaTypeImageConfig
    /\ packArgs.configAnnotations # Nil
    /\ Len(pushes) = 1

\* C20: every manifest a successful PackArtifact writes carries the created
\* annotation with an RFC 3339 value: the value the caller supplied,
\* unchanged, or the current time if the caller supplied none.
C20_CreatedPresent ==
    (packArgs # <<>> /\ packArgs.op = "PackArtifact" /\ packPc = "done"
        /\ packed[1].err = NoErr)
    => LET written == pushes[Len(pushes)].bytes.annotations IN
       /\ Len(pushes) = 1
       /\ written # <<>>
       /\ AnnotationArtifactCreated \in DOMAIN written[1]
       /\ IsRFC3339(written[1][AnnotationArtifactCreated])
       /\ IF AnnotationArtifactCreated \in DOMAIN Supplied
          THEN written[1][AnnotationArtifactCreated]
                   = Supplied[AnnotationArtifactCreated]
          ELSE \E now \in Instants :
                   written[1][AnnotationArtifactCreated] = FormatRFC3339(now)
       /\ \A k \in DOMAIN Supplied : k \in DOMAIN written[1]

\* C20 witness: PackArtifact without a created annotation but with another
\* annotation wrote a manifest with both.
C20_Witness ==
    /\ packArgs # <<>>
    /\ packArgs.op = "PackArtifact"
    /\ packPc = "done"
    /\ packed[1].err = NoErr
    /\ "foo" \in DOMAIN Supplied
    /\ DOMAIN pushes[1].bytes.annotations[1] = {"foo", AnnotationArtifactCreated}

----------------------------------------------------------------------------
(* Termination of findRoots *)

\* C21: findRoots terminates for every predecessor function, with cycles and
\* duplicates, and every depth: it returns, and when it returns without
\* error the stack is empty.
C21_Terminates ==
    <>(pc # "findRoots" /\ (err = NoErr => stack = <<>>))

\* C21 witness: findRoots has returned from a walk in which two different
\* keys list each other as predecessors and one list names a key twice.
C21_Witness ==
    /\ pc = "copy"
    /\ stack = <<>>
    /\ \E k1, k2 \in DOMAIN predOf :
          /\ k1 # k2
          /\ \E p \in Range(predOf[k1]) : FromOCI(p) = k2
          /\ \E p \in Range(predOf[k2]) : FromOCI(p) = k1
    /\ \E k \in DOMAIN predOf :
          \E i, j \in 1..Len(predOf[k]) :
              i # j /\ FromOCI(predOf[k][i]) = FromOCI(predOf[k][j])

\* the streams src.Fetch handed to the filters during the call that returned
Streams == IF found = <<>> THEN {} ELSE Range(found[1].streams)

\* C22 as stated: every stream FilterAnnotation or FilterArtifactType obtained
\* from src.Fetch is drained and closed when the predecessor function returns,
\* on every exit path.
C22_Original ==
    \A st \in Streams : st.closed /\ st.drained

\* C22: every stream FilterAnnotation or FilterArtifactType obtained from
\* src.Fetch is closed when the predecessor function returns, on every exit
\* path including a manifest decode error, and there is one stream for each
\* Fetch that succeeded; the stream has been read to its end when the stored
\* bytes are exactly one well-formed JSON value.
C22_Closed ==
    found # <<>> =>
        /\ \A st \in Streams : st.closed
        /\ Len(found[1].streams) <= Len(SelectSeq(io, LAMBDA op : op = "Fetch"))
        /\ Len(SelectSeq(io, LAMBDA op : op = "Fetch")) <=
              Len(found[1].streams) + (IF found[1].err = ErrNotFound THEN 1 ELSE 0)
        /\ \A st \in Streams :
              BytesOf(src.content[st.digest]) = "json" => st.drained

\* C22 witness: the call returned a manifest decode error after a successful
\* decode, and left two closed streams, the second one not drained.
C22_Witness ==
    /\ found # <<>>
    /\ found[1].err = ErrDecode
    /\ Len(found[1].streams) = 2
    /\ found[1].streams[1].closed /\ found[1].streams[1].drained
    /\ found[1].streams[2].closed /\ ~found[1].streams[2].drained
    /\ BytesOf(src.content[found[1].streams[2].digest]) = "malformed"

\* FilterAnnotation and FilterArtifactType are both registered, one after the
\* other, on a source that is not a ReferrerFinder
BothFilters ==
    /\ ~referrerFinder
    /\ Len(filters) = 2
    /\ filters[1].kind # filters[2].kind

\* the outcome of the same call had the two filters been registered in the
\* opposite order
Swapped ==
    FindPredecessors(2, opts, <<filters[2], filters[1]>>, referrerFinder, src,
                     answer)

Keys(nodes) == {FromOCI(nodes[i]) : i \in 1..Len(nodes)}

\* the base predecessors each of the two filters keeps when it is given them
PassBoth ==
    {p \in Range(answer.predecessors) :
        \A i \in 1..2 :
            LET o == FilterStep(src, filters[i], p, answer.readAhead)
            IN  o.err = NoErr /\ o.keep}

\* C25: on a source that is not a ReferrerFinder, FilterAnnotation then
\* FilterArtifactType and the opposite order give predecessor functions that,
\* whenever both return without error, return the same set of predecessors by
\* equivalence key: the base predecessors that pass both filters.
C25_OrderIndependent ==
    (BothFilters /\ FoundOk /\ Swapped.err = NoErr) =>
        /\ Keys(found[1].nodes) = Keys(Swapped.nodes)
        /\ Keys(found[1].nodes) = {FromOCI(p) : p \in PassBoth}

\* C25 witness: both orders returned without error on a base list of which
\* one predecessor passes both filters and another one does not.
C25_Witness ==
    /\ BothFilters /\ FoundOk /\ Swapped.err = NoErr
    /\ found[1].nodes # <<>>
    /\ Keys(found[1].nodes) # Keys(answer.predecessors)

\* C24: for a fixed source graph, starting node and depth, the set of roots
\* findRoots returns does not depend on the order in which the predecessor
\* function lists the predecessors of a node: a second run with the same
\* arguments returns the roots of the first.
C24_SameRoots ==
    (run >= 2 /\ Walked) => DOMAIN roots = DOMAIN prev.roots

\* <<k, j>>: the custom FindPredecessors has listed j as a predecessor of k
PredEdges ==
    UNION {{<<k, FromOCI(predOf[k][i])>> : i \in 1..Len(predOf[k])} :
           k \in DOMAIN predOf}

\* the keys reached from the keys S by at most n further predecessor edges
RECURSIVE Upward(_, _)
Upward(S, n) ==
    IF n = 0
    THEN S
    ELSE Upward(S \cup {e[2] : e \in {f \in PredEdges : f[1] \in S}}, n - 1)

\* no key is its own ancestor in what the custom FindPredecessors has answered
Acyclic ==
    \A k \in DOMAIN predOf :
        k \notin Upward({e[2] : e \in {f \in PredEdges : f[1] = k}},
                        Cardinality(DOMAIN predOf))

\* C26 as stated: findRoots returns a non-empty set of roots whenever it
\* returns without error, for every predecessor function and depth.
C26_Original ==
    Walked => DOMAIN roots # {}

\* C26: findRoots returns a non-empty set of roots whenever it returns
\* without error, for every depth and every predecessor function that makes
\* no node its own ancestor, so ExtendedCopyGraph has at least one root to run
\* CopyGraph on.
C26_RootsNonEmpty ==
    (Walked /\ Acyclic) => (DOMAIN roots # {} /\ pending = DOMAIN roots)

\* C26 witness: findRoots returned roots from a walk over an acyclic
\* predecessor function that listed the same predecessor twice for one node
\* and gave predecessors to a node other than the start.
C26_Witness ==
    /\ Walked /\ Acyclic
    /\ DOMAIN roots # {}
    /\ \E k \in DOMAIN predOf :
          /\ Len(predOf[k]) >= 2
          /\ FromOCI(predOf[k][1]) = FromOCI(predOf[k][2])
    /\ \E k \in DOMAIN predOf :
          /\ predOf[k] # <<>>
          /\ k # FromOCI(WalkStart)

\* C23: over a source whose predecessors are the inverse of Successors on an
\* acyclic graph, whenever ExtendedCopyGraph returns without error, for any
\* depth and any chain of built-in filters, dst holds the starting node and
\* all of its descendants; the descriptor ExtendedCopy then tags is in dst.
C23_StartCopied ==
    /\ GraphCopied =>
          {FromOCI(d) : d \in Descendants(src, {node[1]})} \subseteq dst
    /\ (pc = "done" /\ err = NoErr) =>
          /\ DstRef(srcRef, dstRef) \in DOMAIN dstTags
          /\ FromOCI(dstTags[DstRef(srcRef, dstRef)]) \in dst

\* C23 witness: a bounded walk through two filters returned roots other than
\* the starting node, and the copy of their sub-DAGs brought the starting
\* node and its descendants to dst.
C23_Witness ==
    /\ pc = "done" /\ err = NoErr
    /\ Len(filters) = 2
    /\ opts.Depth > 0
    /\ DOMAIN roots # {}
    /\ FromOCI(node[1]) \notin DOMAIN roots
    /\ Descendants(src, {node[1]}) # {node[1]}
    /\ FromOCI(node[1]) \notin prev.dst

====
